---- MODULE Spec2Model ----
(***************************************************************************)
(* mailgloss: the template engine (extractVariables, RenderTemplate), the  *)
(* template store, the compose flow that feeds them, the validation of the *)
(* address fields (parseFromField, splitEmails), the way to the mailer,   *)
(* the history of sent mail across runs, the provider settings, and the   *)
(* calls of the engine side by side.                                       *)
(*                                                                         *)
(* A Go string is a sequence of characters; a character is a one-element   *)
(* TLA+ string.  Offsets are Go offsets (0-based), so Slice(s, i, j) is    *)
(* s[i:j].                                                                 *)
(***************************************************************************)
EXTENDS Integers, Sequences, FiniteSets, TLC

VARIABLES
    pc,         \* position of the flow under check
    texts,      \* extractVariables: the argument list (texts ...string)
    variables,  \* extractVariables: the returned slice
    TemplatesList,  \* Templates.TemplatesList
    templatesFile,  \* the content of templates.json
    now,            \* the clock read by time.Now(), in ticks
    template,   \* RenderTemplate: the template argument
    values,     \* RenderTemplate: the variables argument, a map key -> value
    pending,    \* RenderTemplate: the keys the range loop has not visited yet
    subject,    \* RenderTemplate: the named result subject
    body,       \* RenderTemplate: the named result body
    config,             \* ComposeModel.config: DefaultProvider, DateFormat, Providers
    selectedProvider,   \* ComposeModel.selectedProvider
    inputs,             \* ComposeModel.inputs: the text of From, To, CC, BCC and Subject
    textarea,           \* ComposeModel.textarea: the text of the body field
    showPicker,         \* ComposeModel.showPicker (the template picker)
    showVarPrompt,      \* ComposeModel.showVarPrompt
    variablePrompt,     \* ComposeModel.variablePrompt
    entered,            \* the prompt variables whose input the user has typed into
    insertions,         \* the templates selected so far
    input,              \* parseFromField: the input argument
    providerConfig,     \* parseFromField: the providerConfig argument (a pointer)
    result,             \* parseFromField: the results email, name and err
    recipients,         \* splitEmails: the argument s
    split,              \* splitEmails: the results, the emails and the error
    isSending,          \* ComposeModel.isSending
    msg,                \* the message the send command has produced, if any
    sent,               \* the messages handed to Mailer.Send
    history,            \* History.Emails: the entries of the sent-mail history
    errorMsg,           \* AppModel.errorMsg
    mailConfig,         \* the mail.Config of each driver NewWithLimits has made
    maxEntries,         \* History.MaxEntries
    historyFile,        \* history.json: nothing, or the history saved last
    maxHistoryEntries,  \* the limit max_history_entries of the configuration
    settings,           \* SettingsModel: the view, the list, the form
    settingsMsg,        \* the command or message of the settings under way, if any
    configFile,         \* config.yaml: nothing, or the configuration saved last
    flows               \* the calls under way side by side, each with its locals

extractVars == <<texts, variables>>
storeVars == <<TemplatesList, templatesFile, now>>
renderVars == <<template, values, pending, subject, body>>
composeVars == <<config, selectedProvider, inputs, textarea, showPicker,
                 showVarPrompt, variablePrompt, entered, insertions>>
validationVars == <<input, providerConfig, result, recipients, split>>
sendVars == <<isSending, msg, sent, history, errorMsg, mailConfig>>
historyVars == <<maxEntries, historyFile, maxHistoryEntries>>
settingsVars == <<settings, settingsMsg, configFile>>
flowVars == <<flows>>
vars == <<pc, texts, variables, TemplatesList, templatesFile, now,
          template, values, pending, subject, body,
          config, selectedProvider, inputs, textarea, showPicker,
          showVarPrompt, variablePrompt, entered, insertions,
          input, providerConfig, result, recipients, split,
          isSending, msg, sent, history, errorMsg, mailConfig,
          maxEntries, historyFile, maxHistoryEntries,
          settings, settingsMsg, configFile, flows>>

-----------------------------------------------------------------------------
(* Characters and Go string primitives. *)

LB == "{"
RB == "}"
SP == " "
\* vertical tab: white space for strings.TrimSpace, not matched by regexp \s
VT == "VT"

OPEN == <<LB, LB>>
CLOSE == <<RB, RB>>

\* s[i:j]
Slice(s, i, j) == SubSeq(s, i + 1, j)

\* strings.HasPrefix(s[i:], sub)
HasAt(s, i, sub) ==
    /\ i >= 0
    /\ i + Len(sub) <= Len(s)
    /\ Slice(s, i, i + Len(sub)) = sub

\* strings.Index(s, sub): offset of the first occurrence, -1 when absent
Index(s, sub) ==
    IF \E i \in 0..Len(s) : HasAt(s, i, sub)
    THEN CHOOSE i \in 0..Len(s) :
            HasAt(s, i, sub) /\ \A j \in 0..(i - 1) : ~HasAt(s, j, sub)
    ELSE -1

\* unicode.IsSpace, on the characters of the model
IsSpace(c) == c \in {SP, VT}

RECURSIVE TrimLeft(_)
TrimLeft(s) ==
    IF s # <<>> /\ IsSpace(Head(s)) THEN TrimLeft(Tail(s)) ELSE s

RECURSIVE TrimRight(_)
TrimRight(s) ==
    IF s # <<>> /\ IsSpace(s[Len(s)]) THEN TrimRight(SubSeq(s, 1, Len(s) - 1)) ELSE s

\* strings.TrimSpace
TrimSpace(s) == TrimRight(TrimLeft(s))

Range(s) == {s[i] : i \in 1..Len(s)}

-----------------------------------------------------------------------------
(* extractVariables *)

\* The insertion without the test for an empty name.
MapPutUnchecked(variableMap, varName) == variableMap \cup {varName}

\* if varName != "" { variableMap[varName] = true }
MapPut(variableMap, varName) ==
    IF varName # <<>> THEN variableMap \cup {varName} ELSE variableMap

\* strings.Index(text[startIdx:], "}}")
ClosingIndex(text, startIdx) == Index(Slice(text, startIdx, Len(text)), CLOSE)

\* The inner loop of extractVariables on one text, from offset pos.
RECURSIVE ScanText(_, _, _)
ScanText(text, pos, variableMap) ==
    IF ~(pos < Len(text)) THEN variableMap
    ELSE
        LET s == Index(Slice(text, pos, Len(text)), OPEN) IN
        IF s = -1 THEN variableMap
        ELSE
            LET startIdx == s + pos
                e == ClosingIndex(text, startIdx)
            IN
            IF e = -1 THEN variableMap
            ELSE
                LET endIdx == e + startIdx
                    varName == TrimSpace(Slice(text, startIdx + 2, endIdx))
                IN  ScanText(text, endIdx + 2, MapPut(variableMap, varName))

\* A scan that gives up on the whole argument list at an unmatched "{{".
RECURSIVE ScanTextsAbort(_, _)
ScanTextsAbort(ts, variableMap) ==
    IF ts = <<>> THEN variableMap
    ELSE
        LET text == Head(ts)
            m == ScanText(text, 0, variableMap)
            unmatched ==
                \E i \in 0..Len(text) :
                    /\ HasAt(text, i, OPEN)
                    /\ \A j \in i..Len(text) : ~HasAt(text, j, CLOSE)
        IN  IF unmatched THEN m ELSE ScanTextsAbort(Tail(ts), m)

\* The outer loop: for _, text := range texts
RECURSIVE ScanTexts(_, _)
ScanTexts(ts, variableMap) ==
    IF ts = <<>> THEN variableMap
    ELSE ScanTexts(Tail(ts), ScanText(Head(ts), 0, variableMap))

\* The slice built from a single-text map only (the map re-made per text).
VariableMapLastOnly(ts) ==
    IF ts = <<>> THEN {} ELSE ScanText(ts[Len(ts)], 0, {})

\* variableMap after the scan of every text
VariableMap(ts) == ScanTexts(ts, {})

\* "for v := range variableMap { variables = append(variables, v) }":
\* Go leaves the iteration order of a map open, so every order of the keys
\* is a possible return value.
MapKeySlices(m) ==
    {s \in [1..Cardinality(m) -> m] : \A i, j \in 1..Cardinality(m) : s[i] = s[j] => i = j}

\* The possible return values of extractVariables(texts...)
extractVariables(ts) == MapKeySlices(VariableMap(ts))


-----------------------------------------------------------------------------
(* The part of Go's regexp that RenderTemplate uses: QuoteMeta, the        *)
(* pattern syntax the built pattern can contain (escapes, \s, ".", "*",    *)
(* "$"), leftmost-first matching and ReplaceAllString with its expansion   *)
(* of "$" in the replacement.                                              *)

BS == "\\"

\* the characters regexp.QuoteMeta escapes
SpecialBytes == {BS, ".", "+", "*", "?", "(", ")", "|", "[", "]", LB, RB, "^", "$"}

\* regexp.QuoteMeta
RECURSIVE QuoteMeta(_)
QuoteMeta(s) ==
    IF s = <<>> THEN <<>>
    ELSE (IF Head(s) \in SpecialBytes THEN <<BS, Head(s)>> ELSE <<Head(s)>>)
            \o QuoteMeta(Tail(s))

\* The pattern with the key pasted in as it is.
PatternUnquoted(key) ==
    <<BS, LB, BS, LB, BS, "s", "*">> \o key \o <<BS, "s", "*", BS, RB, BS, RB>>

\* pattern := `\{\{\s*` + regexp.QuoteMeta(key) + `\s*\}\}`
Pattern(key) ==
    <<BS, LB, BS, LB, BS, "s", "*">> \o QuoteMeta(key) \o <<BS, "s", "*", BS, RB, BS, RB>>

Atom(kind, ch) == [kind |-> kind, ch |-> ch, star |-> FALSE]

\* regexp/syntax: the pattern as a sequence of atoms, or ok = FALSE where
\* Compile returns an error (a "*" with nothing to repeat, a trailing "\")
RECURSIVE Parse(_, _)
Parse(p, acc) ==
    IF p = <<>> THEN [ok |-> TRUE, re |-> acc]
    ELSE IF Head(p) = BS THEN
        IF Len(p) < 2 THEN [ok |-> FALSE, re |-> <<>>]
        ELSE IF p[2] = "s" THEN Parse(SubSeq(p, 3, Len(p)), Append(acc, Atom("space", "")))
        ELSE Parse(SubSeq(p, 3, Len(p)), Append(acc, Atom("lit", p[2])))
    ELSE IF Head(p) = "*" THEN
        IF acc = <<>> \/ acc[Len(acc)].star THEN [ok |-> FALSE, re |-> <<>>]
        ELSE Parse(Tail(p), [acc EXCEPT ![Len(acc)].star = TRUE])
    ELSE IF Head(p) = "." THEN Parse(Tail(p), Append(acc, Atom("any", "")))
    ELSE IF Head(p) = "$" THEN Parse(Tail(p), Append(acc, Atom("end", "")))
    ELSE Parse(Tail(p), Append(acc, Atom("lit", Head(p))))

\* regexp.Compile
Compile(p) == Parse(p, <<>>)

\* the class \s of regexp/syntax: [\t\n\f\r ]
IsReSpace(c) == c = SP

\* A literal that matches without regard to letter case.
AtomMatchesFold(a, c) ==
    \/ a.kind = "lit" /\ (a.ch = c \/ {a.ch, c} = {"a", "A"})
    \/ a.kind = "space" /\ IsReSpace(c)
    \/ a.kind = "any"

AtomMatches(a, c) ==
    \/ a.kind = "lit" /\ a.ch = c
    \/ a.kind = "space" /\ IsReSpace(c)
    \/ a.kind = "any"

\* how many characters from offset i on the atom can take
RECURSIVE RunLength(_, _, _)
RunLength(a, text, i) ==
    IF i < Len(text) /\ AtomMatches(a, text[i + 1])
    THEN 1 + RunLength(a, text, i + 1)
    ELSE 0

\* The match of atoms k.. at offset i: the offset behind it, -1 when there
\* is none.  A starred atom takes as much as it can and gives back one
\* character at a time (leftmost-first).
RECURSIVE MatchHere(_, _, _, _)
RECURSIVE MatchStar(_, _, _, _, _)
RECURSIVE GiveBack(_, _, _, _, _, _)
MatchHere(re, k, text, i) ==
    IF k > Len(re) THEN i
    ELSE IF re[k].kind = "end" THEN
        IF re[k].star \/ i = Len(text) THEN MatchHere(re, k + 1, text, i) ELSE -1
    ELSE IF re[k].star THEN MatchStar(re, k, text, i, RunLength(re[k], text, i))
    ELSE IF i < Len(text) /\ AtomMatches(re[k], text[i + 1])
        THEN MatchHere(re, k + 1, text, i + 1)
        ELSE -1

\* the starred atom k takes n characters; r is the match of what follows
MatchStar(re, k, text, i, n) ==
    GiveBack(re, k, text, i, n, MatchHere(re, k + 1, text, i + n))

GiveBack(re, k, text, i, n, r) ==
    IF r # -1 THEN r
    ELSE IF n = 0 THEN -1
    ELSE MatchStar(re, k, text, i, n - 1)

\* offset of the leftmost match at or after pos, -1 when there is none
RECURSIVE FindFrom(_, _, _)
FindFrom(re, text, pos) ==
    IF pos > Len(text) THEN -1
    ELSE IF MatchHere(re, 1, text, pos) # -1 THEN pos
    ELSE FindFrom(re, text, pos + 1)

Digits == <<"0", "1", "2", "3", "4", "5", "6", "7", "8", "9">>

LowerLetters ==
    { "a", "b", "c", "d", "e", "f", "g", "h", "i", "j", "k", "l", "m",
      "n", "o", "p", "q", "r", "s", "t", "u", "v", "w", "x", "y", "z" }

UpperLetters ==
    { "A", "B", "C", "D", "E", "F", "G", "H", "I", "J", "K", "L", "M",
      "N", "O", "P", "Q", "R", "S", "T", "U", "V", "W", "X", "Y", "Z" }

DigitChars == Range(Digits)

NameChars == LowerLetters \cup UpperLetters \cup DigitChars \cup {"_"}

IsDigit(c) == c \in DigitChars
IsNameChar(c) == c \in NameChars

\* regexp's extract: the name after a "$" of the replacement, "{name}" or
\* the longest run of letters, digits and "_"; whole = the name is the
\* number 0, the whole match
ExtractName(str) ==
    LET brace == str # <<>> /\ str[1] = LB
        t == IF brace THEN Tail(str) ELSE str
        len == CHOOSE l \in 0..Len(t) :
                  /\ \A m \in 1..l : IsNameChar(t[m])
                  /\ (l < Len(t) => ~IsNameChar(t[l + 1]))
        closed == len < Len(t) /\ t[len + 1] = RB
    IN  IF len = 0 \/ (brace /\ ~closed)
        THEN [ok |-> FALSE, whole |-> FALSE, rest |-> str]
        ELSE [ok |-> TRUE,
              whole |-> SubSeq(t, 1, len) = <<"0">>,
              rest |-> SubSeq(t, (IF brace THEN len + 2 ELSE len + 1), Len(t))]

\* Regexp.expand for a pattern without groups: "$$" is "$", "$0" and "${0}"
\* are the match, any other "$name" is empty, a "$" that starts no name stays
RECURSIVE Expand(_, _)
Expand(repl, match) ==
    LET d == Index(repl, <<"$">>) IN
    IF d = -1 THEN repl
    ELSE
        LET before == Slice(repl, 0, d)
            after == Slice(repl, d + 1, Len(repl))
        IN
        IF after # <<>> /\ after[1] = "$"
        THEN before \o <<"$">> \o Expand(Tail(after), match)
        ELSE
            LET x == ExtractName(after) IN
            IF ~x.ok THEN before \o <<"$">> \o Expand(after, match)
            ELSE before \o (IF x.whole THEN match ELSE <<>>) \o Expand(x.rest, match)

\* the text between pos and the match from i to e, and what is put in
\* place of the match
UpToMatch(src, pos, repl, i, e) ==
    Slice(src, pos, i) \o Expand(repl, Slice(src, i, e))

\* Only the leftmost match, at i, is replaced.
ReplaceFirstAt(re, src, pos, repl, i) ==
    IF i = -1 THEN Slice(src, pos, Len(src))
    ELSE UpToMatch(src, pos, repl, i, MatchHere(re, 1, src, i))
            \o Slice(src, MatchHere(re, 1, src, i), Len(src))

ReplaceFirst(re, src, pos, repl) ==
    ReplaceFirstAt(re, src, pos, repl, FindFrom(re, src, pos))

\* re.ReplaceAllString(src, repl), from offset pos on: the next match is
\* at i (ReplaceAt) and ends at e (ReplaceBehind)
RECURSIVE ReplaceFrom(_, _, _, _)
ReplaceBehind(re, src, pos, repl, i, e) ==
    UpToMatch(src, pos, repl, i, e) \o ReplaceFrom(re, src, e, repl)

ReplaceAt(re, src, pos, repl, i) ==
    IF i = -1 THEN Slice(src, pos, Len(src))
    ELSE ReplaceBehind(re, src, pos, repl, i, MatchHere(re, 1, src, i))

ReplaceFrom(re, src, pos, repl) ==
    ReplaceAt(re, src, pos, repl, FindFrom(re, src, pos))

\* A replacement of the leftmost match only.
ReplaceFirstString(re, src, repl) == ReplaceFirst(re, src, 0, repl)

\* re.ReplaceAllString(src, repl)
ReplaceAllString(re, src, repl) == ReplaceFrom(re, src, 0, repl)

-----------------------------------------------------------------------------
(* RenderTemplate *)

\* the body of the range loop for one key
RenderKey(text, key, value) ==
    ReplaceAllString(Compile(Pattern(key)).re, text, value)

\* the orders in which a range loop may visit the keys
Orders(K) ==
    { o \in [1..Cardinality(K) -> K] : \A i, j \in 1..Cardinality(K) : o[i] = o[j] => i = j }

\* the text after the iterations of the range loop over vals, the keys
\* visited in this order
RECURSIVE RenderWith(_, _, _)
RenderWith(text, vals, order) ==
    IF order = <<>> THEN text
    ELSE RenderWith(RenderKey(text, Head(order), vals[Head(order)]), vals, Tail(order))

\* the range loop from the point where the keys of todo are still to be
\* visited and r holds subject and body: the pairs it may end with, any key
\* of todo coming next
RECURSIVE RenderRest(_, _, _)
RenderRest(r, vals, todo) ==
    IF todo = {} THEN {r}
    ELSE UNION { RenderRest([subject |-> RenderKey(r.subject, key, vals[key]),
                             body |-> RenderKey(r.body, key, vals[key])],
                            vals, todo \ {key}) : key \in todo }

\* a call RenderTemplate(tmpl, vals) as a whole: the (subject, body) pairs
\* it may return
RenderTemplate(tmpl, vals) ==
    RenderRest([subject |-> tmpl.Subject, body |-> tmpl.Body], vals, DOMAIN vals)

\* subject = template.Subject; body = template.Body
RenderStart ==
    /\ subject = template.Subject
    /\ body = template.Body
    /\ pending = DOMAIN values

\* for key, value := range variables { ... }: one iteration.  Go leaves the
\* order of a map range open, so any key not yet visited may come next.
\* regexp.MustCompile panics when the pattern does not compile.
RenderStep ==
    /\ pc = "render"
    /\ \E key \in pending :
        IF ~Compile(Pattern(key)).ok
        THEN /\ pc' = "panic"
             /\ UNCHANGED <<pending, subject, body>>
        ELSE /\ subject' = RenderKey(subject, key, values[key])
             /\ body' = RenderKey(body, key, values[key])
             /\ pending' = pending \ {key}
             /\ pc' = pc
    /\ UNCHANGED <<template, values, extractVars, storeVars, composeVars, validationVars, sendVars, historyVars, settingsVars, flowVars>>

\* return subject, body
RenderReturn ==
    /\ pc = "render"
    /\ pending = {}
    /\ pc' = "rendered"
    /\ UNCHANGED <<renderVars, extractVars, storeVars, composeVars, validationVars, sendVars, historyVars, settingsVars, flowVars>>

-----------------------------------------------------------------------------
(* Inputs of the extraction runs: texts put together from a few tokens,    *)
(* "|" separating one argument from the next.                              *)

MaxTokens == 4

BAR == "|"

ExtractTokens ==
    { OPEN, CLOSE, <<LB>>, <<RB>>, <<SP>>, <<"a">>, <<BAR>>,
      <<LB, LB, "a", RB, RB>>, <<LB, LB, SP, "b", SP, RB, RB>> }

RECURSIVE Flatten(_)
Flatten(ss) == IF ss = <<>> THEN <<>> ELSE Head(ss) \o Flatten(Tail(ss))

\* the arguments a flat character sequence stands for
RECURSIVE SplitBar(_, _)
SplitBar(s, cur) ==
    IF s = <<>> THEN <<cur>>
    ELSE IF Head(s) = BAR THEN <<cur>> \o SplitBar(Tail(s), <<>>)
    ELSE SplitBar(Tail(s), Append(cur, Head(s)))

\* the argument list spelled by a sequence of tokens
TextsOf(ts) == SplitBar(Flatten(ts), <<>>)

\* the store before NewTemplates has loaded anything
StoreIdle ==
    /\ TemplatesList = <<>>
    /\ templatesFile = <<>>
    /\ now = 0

ExtractIdle ==
    /\ texts = <<>>
    /\ variables = <<>>

\* no render under way
RenderIdle ==
    /\ template = [Subject |-> <<>>, Body |-> <<>>]
    /\ values = <<>>
    /\ pending = {}
    /\ subject = <<>>
    /\ body = <<>>

\* the layout of DefaultConfig: "02.01.2006", element by element
DefaultDateFormat == <<"02", ".", "01", ".", "2006">>

\* variablePrompt = nil
NoPrompt ==
    [template |-> [Subject |-> <<>>, Body |-> <<>>], variables |-> <<>>,
     inputs |-> <<>>, values |-> <<>>, defaults |-> <<>>]

\* the inputs of the form, all empty
EmptyInputs ==
    [fromInput |-> <<>>, toInput |-> <<>>, ccInput |-> <<>>, bccInput |-> <<>>,
     subjectInput |-> <<>>]

\* no compose form open: the default configuration, empty fields
ComposeIdle ==
    /\ config = [DefaultProvider |-> "", DateFormat |-> DefaultDateFormat,
                 Providers |-> <<>>]
    /\ selectedProvider = ""
    /\ inputs = EmptyInputs
    /\ textarea = <<>>
    /\ showPicker = FALSE
    /\ showVarPrompt = FALSE
    /\ variablePrompt = NoPrompt
    /\ entered = {}
    /\ insertions = 0

\* err == nil
Nil == [quoted |-> <<>>, wrapped |-> ""]

\* no call of parseFromField or splitEmails under way
ValidationIdle ==
    /\ input = <<>>
    /\ providerConfig = <<>>
    /\ result = [email |-> <<>>, name |-> <<>>, err |-> Nil]
    /\ recipients = <<>>
    /\ split = [emails |-> <<>>, err |-> Nil]

\* nothing submitted: no message under way, nothing sent, an empty history
SendIdle ==
    /\ isSending = FALSE
    /\ msg = <<>>
    /\ sent = <<>>
    /\ history = <<>>
    /\ errorMsg = <<>>
    /\ mailConfig = <<>>

\* NewHistory: maxEntries <= 0 gives 100
DefaultMaxEntries == 100

\* the history at the start of the application, no history.json there, the
\* limit of the configuration left at its default
HistoryIdle ==
    /\ maxEntries = DefaultMaxEntries
    /\ historyFile = <<>>
    /\ maxHistoryEntries = DefaultMaxEntries

\* the settings have not been opened, no config.yaml written
SettingsIdle ==
    /\ settings = <<>>
    /\ settingsMsg = <<>>
    /\ configFile = <<>>

\* no calls side by side
FlowsIdle == flows = <<>>

ExtractInit ==
    /\ pc = "extract"
    /\ \E n \in 0..MaxTokens : \E ts \in [1..n -> ExtractTokens] : texts = TextsOf(ts)
    /\ variables = <<>>
    /\ StoreIdle
    /\ RenderIdle
    /\ ComposeIdle
    /\ ValidationIdle
    /\ SendIdle
    /\ HistoryIdle
    /\ SettingsIdle
    /\ FlowsIdle

\* variables := extractVariables(texts...)
ExtractCall ==
    /\ pc = "extract"
    /\ \E v \in extractVariables(texts) : variables' = v
    /\ pc' = "extracted"
    /\ UNCHANGED <<texts, storeVars, renderVars, composeVars, validationVars, sendVars, historyVars, settingsVars, flowVars>>

ExtractNext == ExtractCall

SpecExtract == ExtractInit /\ [][ExtractNext]_vars

-----------------------------------------------------------------------------
(* What the specification says a placeholder is, stated on absolute        *)
(* offsets: the next "{{" at or after the scan position, the next "}}"     *)
(* after it, and on from behind that "}}".                                 *)

NextAt(text, from, sub) ==
    IF \E i \in from..Len(text) : HasAt(text, i, sub)
    THEN CHOOSE i \in from..Len(text) :
            HasAt(text, i, sub) /\ \A j \in from..(i - 1) : ~HasAt(text, j, sub)
    ELSE -1

\* the pairs <<offset of "{{", offset of its "}}">> met by the scan from `from`
RECURSIVE Occurrences(_, _)
Occurrences(text, from) ==
    LET s == NextAt(text, from, OPEN) IN
    IF s = -1 THEN {}
    ELSE LET e == NextAt(text, s + 2, CLOSE) IN
         IF e = -1 THEN {} ELSE {<<s, e>>} \cup Occurrences(text, e + 2)

\* t is s without its leading and trailing white space
IsTrimOf(t, s) ==
    \E i \in 0..Len(s) : \E j \in i..Len(s) :
        /\ t = Slice(s, i, j)
        /\ \A k \in 1..i : IsSpace(s[k])
        /\ \A k \in (j + 1)..Len(s) : IsSpace(s[k])
        /\ (t # <<>> => ~IsSpace(t[1]) /\ ~IsSpace(t[Len(t)]))

Substrings(s) == UNION { { Slice(s, i, j) : j \in i..Len(s) } : i \in 0..Len(s) }

\* s without its leading and trailing white space
TrimOf(s) == CHOOSE t \in Substrings(s) : IsTrimOf(t, s)

\* the names of one text
Names(text) ==
    { TrimOf(Slice(text, o[1] + 2, o[2])) : o \in Occurrences(text, 0) } \ {<<>>}

\* offset of the first "{{" of text that no "}}" follows, -1 when there is none
FirstUnmatched(text) ==
    LET U == { i \in 0..Len(text) :
                 /\ HasAt(text, i, OPEN)
                 /\ \A j \in i..Len(text) : ~HasAt(text, j, CLOSE) }
    IN  IF U = {} THEN -1 ELSE CHOOSE i \in U : \A j \in U : i <= j

\* C2: every run of extractVariables returns exactly the trimmed, non-empty
\* names between each "{{" and the next "}}" of the left-to-right scan of
\* its texts.
C2_ExtractNames ==
    pc = "extracted" =>
        Range(variables) = UNION { Names(texts[k]) : k \in 1..Len(texts) }

\* a text with a spaced name, an empty placeholder and a second placeholder
C2_Witness ==
    /\ pc = "extracted"
    /\ \E k \in 1..Len(texts) :
        /\ \E o \in Occurrences(texts[k], 0) :
              /\ Slice(texts[k], o[1] + 2, o[2]) # <<>>
              /\ TrimSpace(Slice(texts[k], o[1] + 2, o[2])) = <<>>
        /\ Names(texts[k]) # {}
        /\ Range(variables) # {}

\* C3: a "{{" that no "}}" follows ends the scan of its own text only: the
\* names before it are kept, nothing behind it is reported, and every other
\* text is scanned as usual.
C3_UnmatchedStopsText ==
    pc = "extracted" =>
        \A k \in 1..Len(texts) :
            LET u == FirstUnmatched(texts[k]) IN
            u # -1 =>
                /\ Names(Slice(texts[k], 0, u)) \subseteq Range(variables)
                /\ \A m \in 1..Len(texts) : m # k => Names(texts[m]) \subseteq Range(variables)
                /\ Range(variables) \subseteq
                      Names(Slice(texts[k], 0, u))
                        \cup UNION { Names(texts[m]) : m \in (1..Len(texts)) \ {k} }

\* names before the unmatched "{{", and a later text with a name of its own
C3_Witness ==
    /\ pc = "extracted"
    /\ \E k \in 1..Len(texts) :
        /\ FirstUnmatched(texts[k]) > 0
        /\ Names(Slice(texts[k], 0, FirstUnmatched(texts[k]))) # {}
        /\ \E m \in (k + 1)..Len(texts) :
              /\ Names(texts[m]) # {}
              /\ ~(Names(texts[m]) \subseteq Names(texts[k]))
              /\ Names(texts[m]) \subseteq Range(variables)

\* C4: the returned slice holds no name twice and holds the union of what
\* each text yields when extracted alone.
C4_DedupUnion ==
    pc = "extracted" =>
        /\ \A i, j \in 1..Len(variables) : variables[i] = variables[j] => i = j
        /\ Range(variables) = UNION { VariableMap(<<texts[k]>>) : k \in 1..Len(texts) }

\* one name twice in one text and again in another text
C4_Witness ==
    /\ pc = "extracted"
    /\ Len(texts) >= 2
    /\ \E n \in Range(variables) :
        /\ n \in Names(texts[1])
        /\ n \in Names(texts[2])
        /\ Cardinality(Occurrences(texts[1], 0)) >= 2
        /\ Len(variables) = 1

-----------------------------------------------------------------------------
(* The template store: Templates.Add, Update, Delete.                  *)
(* A Template is [ID, Subject, Body, Variables, CreatedAt, UpdatedAt];     *)
(* Name, Tags and Description are carried along unread and are left out.   *)

MaxTemplates == 2
MaxTime == 4
TicksPerSecond == 2

\* now.Format("20060102150405"): the time cut to whole seconds
FormatStamp(t) == <<"T", Digits[(t \div TicksPerSecond) + 1]>>

\* subject and body of the templates handed to the store
StoreContents ==
    { [Subject |-> <<LB, LB, "a", RB, RB>>,
       Body |-> <<LB, LB, SP, "b", SP, RB, RB, LB, LB, "a", RB, RB>>],
      [Subject |-> <<"a", LB, LB, "b">>,
       Body |-> <<LB, LB, SP, RB, RB, LB, LB, "a", RB, RB>>] }

\* the ids a caller passes: none, or one of its own
CallerIDs == { <<>>, <<"x">> }

\* the Template values a caller builds (saveTemplate leaves Variables nil)
InputTemplates ==
    { [ID |-> id, Subject |-> c.Subject, Body |-> c.Body,
       Variables |-> <<>>, CreatedAt |-> 0, UpdatedAt |-> 0] :
         id \in CallerIDs, c \in StoreContents }

\* An update that stores the variables it was handed.
KeepVariables(tmpl) == {tmpl.Variables}

\* extractVariables(template.Subject, template.Body)
TemplateVariables(tmpl) == extractVariables(<<tmpl.Subject, tmpl.Body>>)

\* offset of the first template with this id, 0 when there is none
FindTemplate(id) ==
    IF \E i \in 1..Len(TemplatesList) : TemplatesList[i].ID = id
    THEN CHOOSE i \in 1..Len(TemplatesList) :
            /\ TemplatesList[i].ID = id
            /\ \A j \in 1..(i - 1) : TemplatesList[j].ID # id
    ELSE 0

\* t.save(): the whole list is written out
Save == templatesFile' = TemplatesList'

\* func (t *Templates) Add(template Template) error
Add(tmpl) ==
    /\ Len(TemplatesList) < MaxTemplates
    /\ LET stamped == [tmpl EXCEPT !.CreatedAt = now, !.UpdatedAt = now]
           withID == IF stamped.ID = <<>>
                     THEN [stamped EXCEPT !.ID = FormatStamp(now)]
                     ELSE stamped
       IN  \E v \in TemplateVariables(withID) :
               TemplatesList' = Append(TemplatesList, [withID EXCEPT !.Variables = v])
    /\ Save

\* An update that stamps the template as if it were new.
UpdateRestamped(id, updated) ==
    LET i == FindTemplate(id) IN
    IF i = 0 THEN UNCHANGED <<TemplatesList, templatesFile>>
    ELSE
        /\ LET u == [updated EXCEPT !.ID = id, !.CreatedAt = now, !.UpdatedAt = now]
           IN  \E v \in TemplateVariables(u) :
                   TemplatesList' = [TemplatesList EXCEPT ![i] = [u EXCEPT !.Variables = v]]
        /\ Save

\* func (t *Templates) Update(id string, updated Template) error
Update(id, updated) ==
    LET i == FindTemplate(id) IN
    IF i = 0 THEN UNCHANGED <<TemplatesList, templatesFile>>
    ELSE
        /\ LET u == [updated EXCEPT !.ID = id,
                                    !.CreatedAt = TemplatesList[i].CreatedAt,
                                    !.UpdatedAt = now]
           IN  \E v \in TemplateVariables(u) :
                   TemplatesList' = [TemplatesList EXCEPT ![i] = [u EXCEPT !.Variables = v]]
        /\ Save

\* func (t *Templates) Delete(id string) error
Delete(id) ==
    LET i == FindTemplate(id) IN
    IF i = 0 THEN UNCHANGED <<TemplatesList, templatesFile>>
    ELSE
        /\ TemplatesList' = SubSeq(TemplatesList, 1, i - 1)
                              \o SubSeq(TemplatesList, i + 1, Len(TemplatesList))
        /\ Save

\* the ids a caller may name: those stored and one that is not
KnownIDs == {TemplatesList[i].ID : i \in 1..Len(TemplatesList)} \cup {<<"x">>}

\* The clock moves on while a call runs; MaxTime ends the run.
ClockAdvances ==
    /\ now < MaxTime
    /\ now' = now + 1

StoreAdd ==
    /\ \E tmpl \in InputTemplates : Add(tmpl)
    /\ ClockAdvances
    /\ UNCHANGED <<pc, extractVars, renderVars, composeVars, validationVars, sendVars, historyVars, settingsVars, flowVars>>

StoreUpdate ==
    /\ \E id \in KnownIDs, updated \in InputTemplates : Update(id, updated)
    /\ ClockAdvances
    /\ UNCHANGED <<pc, extractVars, renderVars, composeVars, validationVars, sendVars, historyVars, settingsVars, flowVars>>

StoreDelete ==
    /\ \E id \in KnownIDs : Delete(id)
    /\ ClockAdvances
    /\ UNCHANGED <<pc, extractVars, renderVars, composeVars, validationVars, sendVars, historyVars, settingsVars, flowVars>>

\* time passes between two calls
Tick ==
    /\ ClockAdvances
    /\ UNCHANGED <<pc, extractVars, renderVars, composeVars, TemplatesList, templatesFile,
                   validationVars, sendVars, historyVars, settingsVars, flowVars>>

StoreInit ==
    /\ pc = "store"
    /\ StoreIdle
    /\ ExtractIdle
    /\ RenderIdle
    /\ ComposeIdle
    /\ ValidationIdle
    /\ SendIdle
    /\ HistoryIdle
    /\ SettingsIdle
    /\ FlowsIdle

StoreNext == StoreAdd \/ StoreUpdate \/ StoreDelete \/ Tick

SpecStore == StoreInit /\ [][StoreNext]_vars

\* C1: every stored template's Variables lists, once each, exactly the names
\* the specification's scan finds in its current Subject and Body.
C1_VariablesDerived ==
    \A i \in 1..Len(TemplatesList) :
        LET t == TemplatesList[i] IN
        /\ Range(t.Variables) = Names(t.Subject) \cup Names(t.Body)
        /\ \A j, k \in 1..Len(t.Variables) : t.Variables[j] = t.Variables[k] => j = k

\* a template whose text was replaced by an update and whose variables
\* changed with it
C1_Witness ==
    \E i \in 1..Len(TemplatesList) :
        LET t == TemplatesList[i] IN
        /\ t.UpdatedAt > t.CreatedAt
        /\ Len(t.Variables) = 2
        /\ Len(TemplatesList) = 2

-----------------------------------------------------------------------------
(* Runs of RenderTemplate: a subject put together from a few tokens, one   *)
(* of two bodies, and a map over one of a few key sets.                    *)

MaxRenderTokens == 2

KeyA == <<"a">>
KeyDot == <<".">>
KeyBraceA == <<LB, "a">>
KeySpaceA == <<SP, "a">>

RenderTokens ==
    { <<LB, LB, "a", RB, RB>>, <<LB, LB, SP, "a", SP, SP, RB, RB>>,
      <<LB, LB, ".", RB, RB>>, <<LB, LB, "A", RB, RB>>,
      OPEN, CLOSE, <<LB>>, <<RB>>, <<"a">> }

RenderBodies ==
    { <<>>, <<LB, LB, SP, "a", SP, SP, RB, RB, LB, LB, ".", RB, RB>> }

RenderKeySets ==
    { {}, {KeyA}, {KeyDot}, {KeyBraceA}, {KeySpaceA}, {KeyA, KeyDot}, {KeyA, KeyBraceA} }

\* a plain value, one with a "$", one that is a placeholder itself
RenderValues ==
    { <<"A">>, <<"$", "a">>, <<LB, LB, ".", RB, RB>> }

RenderInit ==
    /\ pc = "render"
    /\ \E n \in 0..MaxRenderTokens : \E ts \in [1..n -> RenderTokens] :
         \E b \in RenderBodies :
            template = [Subject |-> Flatten(ts), Body |-> b]
    /\ \E K \in RenderKeySets : values \in [K -> RenderValues]
    /\ RenderStart
    /\ ExtractIdle
    /\ StoreIdle
    /\ ComposeIdle
    /\ ValidationIdle
    /\ SendIdle
    /\ HistoryIdle
    /\ SettingsIdle
    /\ FlowsIdle

RenderNext == RenderStep \/ RenderReturn

SpecRender == RenderInit /\ [][RenderNext]_vars

-----------------------------------------------------------------------------
(* What the specification says Render replaces: every stretch "{{", white  *)
(* space, the key itself, white space, "}}".                               *)

\* r is "{{" ws* k ws* "}}"
IsPlaceholderFor(r, k) ==
    /\ Len(r) >= 4 + Len(k)
    /\ HasAt(r, 0, OPEN)
    /\ HasAt(r, Len(r) - 2, CLOSE)
    /\ \E n \in 0..(Len(r) - 4 - Len(k)) :
          /\ \A m \in 3..(2 + n) : IsReSpace(r[m])
          /\ Slice(r, 2 + n, 2 + n + Len(k)) = k
          /\ \A m \in (3 + n + Len(k))..(Len(r) - 2) : IsReSpace(r[m])

\* the offsets behind the stretches for k that start at offset i
StretchEnds(src, i, k) ==
    { j \in i..Len(src) : IsPlaceholderFor(Slice(src, i, j), k) }

\* src from pos on with every stretch for k, left to right, replaced: by
\* value itself when verbatim, else by what the expansion of value gives
RECURSIVE ReplaceStretches(_, _, _, _, _)
\* the leftmost stretch runs from i to j
StretchTo(src, pos, k, value, verbatim, i, j) ==
    Slice(src, pos, i)
      \o (IF verbatim THEN value ELSE Expand(value, Slice(src, i, j)))
      \o ReplaceStretches(src, j, k, value, verbatim)

\* the leftmost stretch starts at i
StretchAt(src, pos, k, value, verbatim, i) ==
    StretchTo(src, pos, k, value, verbatim, i, CHOOSE x \in StretchEnds(src, i, k) : TRUE)

\* starts: the offsets from pos on at which a stretch starts
StretchAmong(src, pos, k, value, verbatim, starts) ==
    IF starts = {} THEN Slice(src, pos, Len(src))
    ELSE StretchAt(src, pos, k, value, verbatim,
                   CHOOSE x \in starts : \A y \in starts : x <= y)

ReplaceStretches(src, pos, k, value, verbatim) ==
    StretchAmong(src, pos, k, value, verbatim,
                 { i \in pos..Len(src) : StretchEnds(src, i, k) # {} })

\* the key the step from this state to the next has visited
Visited(key) ==
    /\ pc = "render"
    /\ pc' = "render"
    /\ key \in pending
    /\ pending' = pending \ {key}

\* C5: the iteration for a key replaces every stretch "{{", white space,
\* key, white space, "}}" of the subject and of the body, whatever the
\* amount of white space in it.
C5_ReplacesEveryStretch ==
    [][ \A key \in pending :
          Visited(key) =>
            /\ subject' = ReplaceStretches(subject, 0, key, values[key], FALSE)
            /\ body' = ReplaceStretches(body, 0, key, values[key], FALSE) ]_vars

\* the key "a" written twice with different spacing in the subject and
\* once in the body, all three replaced
C5_Witness ==
    /\ pc = "rendered"
    /\ template.Subject = <<LB, LB, "a", RB, RB, LB, LB, SP, "a", SP, SP, RB, RB>>
    /\ template.Body # <<>>
    /\ DOMAIN values = {KeyA}
    /\ values[KeyA] = <<"A">>
    /\ subject = <<"A", "A">>
    /\ body = <<"A", LB, LB, ".", RB, RB>>

\* C6: what the iteration for a key puts in place of a stretch is the
\* value of the key, character for character.
C6_ValueVerbatim ==
    [][ \A key \in pending :
          Visited(key) =>
            /\ subject' = ReplaceStretches(subject, 0, key, values[key], TRUE)
            /\ body' = ReplaceStretches(body, 0, key, values[key], TRUE) ]_vars

\* the text after the iterations for the keys of order, one after another
RenderInOrder(text, order) == RenderWith(text, values, order)

\* C7: whatever the order the keys were visited in, the result is the one
\* every other order gives.
C7_OrderIndependent ==
    pc = "rendered" =>
        \A o \in Orders(DOMAIN values) :
            /\ subject = RenderInOrder(template.Subject, o)
            /\ body = RenderInOrder(template.Body, o)

IsSubstring(sub, s) == \E i \in 0..Len(s) : HasAt(s, i, sub)

HasBrace(s) == \E i \in 1..Len(s) : s[i] \in {LB, RB}

\* the placeholders of a text with a name that is not a key of values, as
\* the literal stretches from "{{" to "}}"
Unresolved(text) ==
    { Slice(text, o[1], o[2] + 2) : o \in
        { o \in Occurrences(text, 0) :
            /\ TrimOf(Slice(text, o[1] + 2, o[2])) # <<>>
            /\ TrimOf(Slice(text, o[1] + 2, o[2])) \notin DOMAIN values } }

PlainKey(k) == ~HasBrace(k) /\ TrimSpace(k) = k

RECURSIVE RegionsFrom(_, _, _)
RegionsBehind(re, text, i, e) == {<<i, e>>} \cup RegionsFrom(re, text, e)

RegionsAt(re, text, i) ==
    IF i = -1 THEN {} ELSE RegionsBehind(re, text, i, MatchHere(re, 1, text, i))

RegionsFrom(re, text, pos) == RegionsAt(re, text, FindFrom(re, text, pos))

MatchRegions(text, pos, key) == RegionsFrom(Compile(Pattern(key)).re, text, pos)

\* C9: whatever text the loop holds when it comes to a key, the pattern of
\* the key matches only stretches that spell the key itself, letter for
\* letter, between the braces; the trimmed name of such a stretch is the
\* key (a key with white space around it is no trimmed name).
C9_KeyLiteral ==
    pc = "render" =>
        \A key \in pending : \A text \in {subject, body} :
            \A r \in MatchRegions(text, 0, key) :
                /\ IsPlaceholderFor(Slice(text, r[1], r[2]), key)
                /\ TrimSpace(key) = key =>
                      TrimSpace(Slice(text, r[1] + 2, r[2] - 2)) = key

\* the keys "a" and "." visited on "{{A}}{{.}}": only "{{.}}" is replaced
C9_Witness ==
    /\ pc = "rendered"
    /\ DOMAIN values = {KeyA, KeyDot}
    /\ values[KeyDot] = <<"A">>
    /\ template.Subject = <<LB, LB, "A", RB, RB, LB, LB, ".", RB, RB>>
    /\ subject = <<LB, LB, "A", RB, RB, "A">>

-----------------------------------------------------------------------------
(* net/mail.ParseAddress, as far as the characters of the From texts below *)
(* reach: atoms, blanks, "@" and angle brackets.  Quoted strings,          *)
(* comments, groups, domain literals and encoded words start with a        *)
(* character ('"', "(", ":", "[", "=?") none of these texts holds.         *)
(* A parser result carries err ("" when there is none) and rest, the       *)
(* input left over (addrParser.s).                                         *)

\* isVchar: a visible character
IsVchar(c) == ~IsSpace(c)

\* isAtext(r, dot, permissive)
IsAtext(c, dot, permissive) ==
    IF c = "." THEN dot
    ELSE IF c \in {"(", ")", "[", "]", ";", "@", BS, ","} THEN permissive
    ELSE IF c \in {"<", ">", "\"", ":"} THEN FALSE
    ELSE IsVchar(c)

\* addrParser.skipSpace
RECURSIVE SkipSpace(_)
SkipSpace(s) == IF s # <<>> /\ Head(s) = SP THEN SkipSpace(Tail(s)) ELSE s

\* the result of a step of the parser that failed with e, the input at s
Failed(e, s) ==
    [err |-> e, atom |-> <<>>, spec |-> <<>>, phrase |-> <<>>, rest |-> s]

\* consumeAtom: the checks on the atom cut off
CheckAtom(atom, rest, permissive) ==
    IF ~permissive /\ Head(atom) = "." THEN Failed("mail: leading dot in atom", rest)
    ELSE IF ~permissive /\ Index(atom, <<".", ".">>) # -1
    THEN Failed("mail: double dot in atom", rest)
    ELSE IF ~permissive /\ atom[Len(atom)] = "."
    THEN Failed("mail: trailing dot in atom", rest)
    ELSE [err |-> "", atom |-> atom, rest |-> rest]

\* consumeAtom: the atom is the first i characters
CutAtom(s, i, permissive) ==
    IF i = 0 THEN Failed("mail: invalid string", s)
    ELSE CheckAtom(SubSeq(s, 1, i), SubSeq(s, i + 1, Len(s)), permissive)

\* consumeAtom: the length of the longest run of atext characters at the start
AtomLength(s, dot, permissive) ==
    CHOOSE n \in 0..Len(s) :
        /\ \A m \in 1..n : IsAtext(s[m], dot, permissive)
        /\ (n < Len(s) => ~IsAtext(s[n + 1], dot, permissive))

\* addrParser.consumeAtom(dot, permissive)
ConsumeAtom(s, dot, permissive) == CutAtom(s, AtomLength(s, dot, permissive), permissive)

\* consumeAddrSpec, after the domain was read
AfterDomain(orig, localPart, domain) ==
    IF domain.err # "" THEN Failed(domain.err, orig)
    ELSE [err |-> "", spec |-> localPart \o <<"@">> \o domain.atom, rest |-> domain.rest]

\* consumeAddrSpec, after the "@": blanks, then the domain
DomainFrom(orig, localPart, s2) ==
    IF s2 = <<>> THEN Failed("mail: no domain in addr-spec", orig)
    ELSE AfterDomain(orig, localPart, ConsumeAtom(s2, TRUE, FALSE))

\* consumeAddrSpec, after the local part was read
AfterLocalPart(orig, localPart) ==
    IF localPart.err # "" THEN Failed(localPart.err, orig)
    ELSE IF localPart.rest = <<>> \/ Head(localPart.rest) # "@"
    THEN Failed("mail: missing @ in addr-spec", orig)
    ELSE DomainFrom(orig, localPart.atom, SkipSpace(Tail(localPart.rest)))

\* consumeAddrSpec, after the leading blanks
LocalPartFrom(orig, s1) ==
    IF s1 = <<>> THEN Failed("mail: no addr-spec", orig)
    ELSE AfterLocalPart(orig, ConsumeAtom(s1, TRUE, FALSE))

\* addrParser.consumeAddrSpec: local-part "@" domain; on an error the
\* parser is put back where it was
ConsumeAddrSpec(s) == LocalPartFrom(s, SkipSpace(s))

\* strings.Join(words, " ")
RECURSIVE JoinWords(_)
JoinWords(words) ==
    IF words = <<>> THEN <<>>
    ELSE IF Len(words) = 1 THEN Head(words)
    ELSE Head(words) \o <<SP>> \o JoinWords(Tail(words))

\* the loop of addrParser.consumePhrase: one word after another, until the
\* input ends or no word can be read
RECURSIVE PhraseWords(_, _)
RECURSIVE AfterWord(_, _, _)
PhraseWords(s, words) == AfterWord(SkipSpace(s), words, ConsumeAtom(SkipSpace(s), TRUE, TRUE))

AfterWord(s1, words, word) ==
    IF s1 = <<>> THEN [err |-> "", words |-> words, rest |-> s1]
    ELSE IF word.err # "" THEN [err |-> word.err, words |-> words, rest |-> s1]
    ELSE PhraseWords(word.rest, Append(words, word.atom))

\* consumePhrase: an error counts only when no word was read
PhraseOf(r) ==
    IF r.err # "" /\ r.words = <<>> THEN Failed("mail: missing word in phrase", r.rest)
    ELSE [err |-> "", phrase |-> JoinWords(r.words), rest |-> r.rest]

\* addrParser.consumePhrase
ConsumePhrase(s) == PhraseOf(PhraseWords(s, <<>>))

\* what mail.ParseAddress returns when it fails with e
NoAddress(e) == [err |-> e, Name |-> <<>>, Address |-> <<>>, rest |-> <<>>]

\* parseAddress, after the addr-spec between the angle brackets was read
AfterAngleAddr(displayName, angle) ==
    IF angle.err # "" THEN NoAddress(angle.err)
    ELSE IF angle.rest = <<>> \/ Head(angle.rest) # ">"
    THEN NoAddress("mail: unclosed angle-addr")
    ELSE [err |-> "", Name |-> displayName, Address |-> angle.spec,
          rest |-> Tail(angle.rest)]

\* parseAddress, after the display name and the blanks after it
AngleAddrFrom(displayName, s3) ==
    IF s3 = <<>> \/ Head(s3) # "<"
    THEN IF \A m \in 1..Len(displayName) : IsAtext(displayName[m], TRUE, FALSE)
         THEN NoAddress("mail: missing '@' or angle-addr")
         ELSE NoAddress("mail: no angle-addr")
    ELSE AfterAngleAddr(displayName, ConsumeAddrSpec(Tail(s3)))

\* parseAddress, after the display name was read
AfterDisplayName(display) ==
    IF display.err # "" THEN NoAddress(display.err)
    ELSE AngleAddrFrom(display.phrase, SkipSpace(display.rest))

\* parseAddress, after the try to read the whole input as an addr-spec
AfterAddrSpec(s0, spec) ==
    IF spec.err = ""
    THEN [err |-> "", Name |-> <<>>, Address |-> spec.spec, rest |-> SkipSpace(spec.rest)]
    ELSE AfterDisplayName(IF Head(s0) # "<" THEN ConsumePhrase(s0)
                          ELSE [err |-> "", phrase |-> <<>>, rest |-> s0])

\* parseAddress, after the leading blanks
MailboxFrom(s0) ==
    IF s0 = <<>> THEN NoAddress("mail: no address")
    ELSE AfterAddrSpec(s0, ConsumeAddrSpec(s0))

\* addrParser.parseAddress: an addr-spec alone, or [display-name] "<"
\* addr-spec ">"
ParseMailbox(s) == MailboxFrom(SkipSpace(s))

\* parseSingleAddress: one mailbox and nothing after it
SingleAddress(r) ==
    IF r.err # "" THEN [err |-> r.err, Name |-> <<>>, Address |-> <<>>]
    ELSE IF SkipSpace(r.rest) # <<>>
    THEN [err |-> "mail: expected single address", Name |-> <<>>, Address |-> <<>>]
    ELSE [err |-> "", Name |-> r.Name, Address |-> r.Address]

\* mail.ParseAddress(address)
ParseAddress(address) == SingleAddress(ParseMailbox(address))

-----------------------------------------------------------------------------
(* The compose form: a template is picked (ctrl+t, enter), the variable    *)
(* prompt collects values, and the rendered subject and body are written   *)
(* into the form.  A key press and the message its command sends are one   *)
(* step; moving the focus to a field and typing into it are one step, so   *)
(* FocusIndex and the prompt's focusIndex are left out.                    *)

MaxInsertions == 1

TicksPerDay == 4

DATE == <<"d", "a", "t", "e">>
FROM_NAME == <<"f", "r", "o", "m", "_", "n", "a", "m", "e">>
FROM_EMAIL == <<"f", "r", "o", "m", "_", "e", "m", "a", "i", "l">>

\* sysVars := []string{"date", "from_name", "from_email"}
sysVars == <<DATE, FROM_NAME, FROM_EMAIL>>

\* m[k] = v
MapSet(m, k, v) == [x \in DOMAIN m \cup {k} |-> IF x = k THEN v ELSE m[x]]

\* A merge in which the defaults win over the submitted values.
FinalVarsDefaultsWin(defaults, submitted) ==
    [k \in DOMAIN defaults \cup DOMAIN submitted |->
        IF k \in DOMAIN defaults THEN defaults[k] ELSE submitted[k]]

\* finalVars: the defaults copied first, every submitted value put over them
FinalVars(defaults, submitted) ==
    [k \in DOMAIN defaults \cup DOMAIN submitted |->
        IF k \in DOMAIN submitted THEN submitted[k] ELSE defaults[k]]

TwoDigits(n) == <<Digits[(n \div 10) + 1], Digits[(n % 10) + 1]>>

\* the day of the month the clock shows
DayOf(t) == 1 + (t \div TicksPerDay)

\* time.Format of one layout element: "02" is the day, "01" the month,
\* "2006" the year, anything else stands for itself
FormatElement(e, t) ==
    IF e = "02" THEN TwoDigits(DayOf(t))
    ELSE IF e = "01" THEN TwoDigits(1)
    ELSE IF e = "2006" THEN <<"2", "0", "2", "6">>
    ELSE <<e>>

\* time.Now().Format(layout)
RECURSIVE Format(_, _)
Format(layout, t) ==
    IF layout = <<>> THEN <<>>
    ELSE FormatElement(Head(layout), t) \o Format(Tail(layout), t)

\* dateFormat := "02.01.2006", or config.DateFormat when that is set
DateFormat == IF config.DateFormat # <<>> THEN config.DateFormat ELSE DefaultDateFormat

\* if v != "" { m[k] = v }
MapSetIfSet(m, k, v) == IF v # <<>> THEN MapSet(m, k, v) ELSE m

\* defaults["from_name"] and defaults["from_email"] from name and address,
\* each only when it is not empty
WithFrom(defaults, name, address) ==
    MapSetIfSet(MapSetIfSet(defaults, FROM_NAME, name), FROM_EMAIL, address)

\* defaults["date"], then from_name and from_email of the selected provider
ProviderDefaults ==
    IF selectedProvider # "" /\ selectedProvider \in DOMAIN config.Providers
    THEN WithFrom(MapSet(<<>>, DATE, Format(DateFormat, now)),
                  config.Providers[selectedProvider].FromName,
                  config.Providers[selectedProvider].FromAddress)
    ELSE MapSet(<<>>, DATE, Format(DateFormat, now))

\* the parsed From input put over the defaults, when the parse succeeded
OverrideWith(defaults, addr) ==
    IF addr.err = "" THEN WithFrom(defaults, addr.Name, addr.Address) ELSE defaults

\* the From input put over the defaults, when it is not blank
OverrideFrom(defaults, fromInput) ==
    IF fromInput # <<>> THEN OverrideWith(defaults, ParseAddress(fromInput)) ELSE defaults

\* the From input override: fromInput := strings.TrimSpace(...)
FromOverride(defaults) == OverrideFrom(defaults, TrimSpace(inputs.fromInput))

\* the variables of the prompt: those of the template, then the system
\* variables not among them
RECURSIVE AppendUnseen(_, _)
AppendUnseen(vs, more) ==
    IF more = <<>> THEN vs
    ELSE AppendUnseen(IF Head(more) \in Range(vs) THEN vs ELSE Append(vs, Head(more)),
                      Tail(more))

\* NewVariablePrompt(template, defaults): one input for each variable,
\* holding its default when there is one
PromptFor(tmpl, vs, defaults) ==
    [template |-> tmpl,
     variables |-> vs,
     inputs |-> [i \in 1..Len(vs) |->
                    IF vs[i] \in DOMAIN defaults THEN defaults[vs[i]] ELSE <<>>],
     values |-> <<>>,
     defaults |-> defaults]

NewVariablePrompt(tmpl, defaults) ==
    PromptFor(tmpl, AppendUnseen(tmpl.Variables, sysVars), defaults)

\* for i, varName := range m.variables { m.values[varName] = m.inputs[i].Value() }
SubmittedValues(prompt) ==
    [k \in Range(prompt.variables) |->
        prompt.inputs[CHOOSE i \in 1..Len(prompt.variables) :
                         /\ prompt.variables[i] = k
                         /\ \A j \in (i + 1)..Len(prompt.variables) :
                                prompt.variables[j] # k]]

Placeholder(k) == OPEN \o k \o CLOSE

\* subject and body of the stored templates offered by the picker
ComposeContents ==
    { [Subject |-> Placeholder(FROM_NAME), Body |-> Placeholder(FROM_EMAIL)],
      [Subject |-> Placeholder(DATE), Body |-> Placeholder(<<"a">>)],
      [Subject |-> <<"h", "i">>, Body |-> <<>>] }

\* what the user types into the From field
FromTexts ==
    { <<>>,
      <<"J", SP, "<", "j", "@", "x", ">">>,
      <<"j", "@", "x">>,
      <<"J">>,
      <<"<", "j", "@", "x", ">", SP, "J">> }

\* what the user types into an input of the prompt
PromptTexts == { <<"U">> }

\* the configurations: DefaultConfig (no provider); a file that names the
\* provider "main" without a from-name and sets no date_format; a file that
\* gives "main" a from-name and sets date_format to day and month
ComposeConfigs ==
    { [DefaultProvider |-> "", DateFormat |-> DefaultDateFormat, Providers |-> <<>>],
      [DefaultProvider |-> "main", DateFormat |-> <<>>,
       Providers |-> [n \in {"main"} |->
                        [FromName |-> <<>>, FromAddress |-> <<"p", "@", "x">>,
                         Mailgun |-> <<>>]]],
      [DefaultProvider |-> "main", DateFormat |-> <<"02", "/", "01">>,
       Providers |-> [n \in {"main"} |->
                        [FromName |-> <<"P">>, FromAddress |-> <<"p", "@", "x">>,
                         Mailgun |-> <<>>]]] }

\* NewComposeModel: empty fields, the default provider selected; the store
\* holds one template, added earlier
ComposeInit ==
    /\ pc = "compose"
    /\ config \in ComposeConfigs
    /\ selectedProvider = config.DefaultProvider
    /\ \E c \in ComposeContents :
          \E v \in extractVariables(<<c.Subject, c.Body>>) :
             TemplatesList = << [ID |-> FormatStamp(0), Subject |-> c.Subject,
                                 Body |-> c.Body, Variables |-> v,
                                 CreatedAt |-> 0, UpdatedAt |-> 0] >>
    /\ templatesFile = TemplatesList
    /\ now = 0
    /\ inputs = EmptyInputs
    /\ textarea = <<>>
    /\ showPicker = FALSE
    /\ showVarPrompt = FALSE
    /\ variablePrompt = NoPrompt
    /\ entered = {}
    /\ insertions = 0
    /\ ExtractIdle
    /\ RenderIdle
    /\ ValidationIdle
    /\ SendIdle
    /\ HistoryIdle
    /\ SettingsIdle
    /\ FlowsIdle

\* the form itself is showing
FormShown == ~showVarPrompt /\ ~showPicker

\* the user types into the From field
FromInputType ==
    /\ FormShown
    /\ \E text \in FromTexts : inputs' = [inputs EXCEPT !.fromInput = text]
    /\ pc' = "compose"
    /\ UNCHANGED <<config, selectedProvider, textarea, showPicker, showVarPrompt,
                   variablePrompt, entered, insertions,
                   extractVars, storeVars, renderVars, validationVars, sendVars, historyVars, settingsVars, flowVars>>

\* ctrl+t on the subject or the body field
OpenTemplatePicker ==
    /\ FormShown
    /\ insertions < MaxInsertions
    /\ showPicker' = TRUE
    /\ pc' = "picker"
    /\ UNCHANGED <<config, selectedProvider, inputs, textarea, showVarPrompt,
                   variablePrompt, entered, insertions,
                   extractVars, storeVars, renderVars, validationVars, sendVars, historyVars, settingsVars, flowVars>>

\* esc in the picker: PickerClosedMsg
PickerClosed ==
    /\ ~showVarPrompt
    /\ showPicker
    /\ showPicker' = FALSE
    /\ pc' = "compose"
    /\ UNCHANGED <<config, selectedProvider, inputs, textarea, showVarPrompt,
                   variablePrompt, entered, insertions,
                   extractVars, storeVars, renderVars, validationVars, sendVars, historyVars, settingsVars, flowVars>>

\* enter in the picker: TemplateSelectedMsg
TemplateSelected ==
    /\ ~showVarPrompt
    /\ showPicker
    /\ \E tmpl \in Range(TemplatesList) :
        IF Len(tmpl.Variables) > 0
        THEN /\ variablePrompt' = NewVariablePrompt(tmpl, FromOverride(ProviderDefaults))
             /\ showVarPrompt' = TRUE
             /\ pc' = "prompt"
             /\ UNCHANGED <<inputs, textarea>>
        ELSE /\ \E r \in RenderTemplate(tmpl, <<>>) :
                  /\ inputs' = [inputs EXCEPT !.subjectInput = r.subject]
                  /\ textarea' = r.body
             /\ pc' = "inserted"
             /\ UNCHANGED <<variablePrompt, showVarPrompt>>
    /\ showPicker' = FALSE
    /\ entered' = {}
    /\ insertions' = insertions + 1
    /\ UNCHANGED <<config, selectedProvider, extractVars, storeVars, renderVars, validationVars, sendVars, historyVars, settingsVars, flowVars>>

\* the user types into one input of the prompt
PromptType ==
    /\ showVarPrompt
    /\ \E i \in 1..Len(variablePrompt.variables), text \in PromptTexts :
          /\ variablePrompt' = [variablePrompt EXCEPT !.inputs[i] = text]
          /\ entered' = entered \cup {variablePrompt.variables[i]}
    /\ pc' = "prompt"
    /\ UNCHANGED <<config, selectedProvider, inputs, textarea, showPicker,
                   showVarPrompt, insertions, extractVars, storeVars, renderVars, validationVars, sendVars, historyVars, settingsVars, flowVars>>

\* enter in the prompt: VariablePromptSubmittedMsg with the text of every
\* input, rendered over the defaults and written into the form
PromptSubmitted ==
    /\ showVarPrompt
    /\ \E finalVars \in {FinalVars(variablePrompt.defaults, SubmittedValues(variablePrompt))} :
       IF \E k \in DOMAIN finalVars : ~Compile(Pattern(k)).ok
       THEN /\ pc' = "panic"
            /\ UNCHANGED <<inputs, textarea>>
       ELSE /\ \E r \in RenderTemplate(variablePrompt.template, finalVars) :
                 /\ inputs' = [inputs EXCEPT !.subjectInput = r.subject]
                 /\ textarea' = r.body
            /\ pc' = "submitted"
    /\ showVarPrompt' = FALSE
    /\ variablePrompt' = NoPrompt
    /\ entered' = {}
    /\ UNCHANGED <<config, selectedProvider, showPicker, insertions,
                   extractVars, storeVars, renderVars, validationVars, sendVars, historyVars, settingsVars, flowVars>>

\* esc in the prompt: VariablePromptClosedMsg
PromptClosed ==
    /\ showVarPrompt
    /\ showVarPrompt' = FALSE
    /\ variablePrompt' = NoPrompt
    /\ entered' = {}
    /\ pc' = "closed"
    /\ UNCHANGED <<config, selectedProvider, inputs, textarea, showPicker,
                   insertions, extractVars, storeVars, renderVars, validationVars, sendVars, historyVars, settingsVars, flowVars>>

ComposeNext ==
    \/ FromInputType
    \/ OpenTemplatePicker
    \/ PickerClosed
    \/ TemplateSelected
    \/ PromptType
    \/ PromptSubmitted
    \/ PromptClosed

SpecCompose == ComposeInit /\ [][ComposeNext]_vars

-----------------------------------------------------------------------------
(* The three sources of the value map, each stated on its own, and the     *)
(* value the priority rule gives a key.                                    *)

\* (1) the system defaults: today's date, the selected provider's from-name
\* and from-address where it has them
SystemSource ==
    LET hasProvider == selectedProvider # "" /\ selectedProvider \in DOMAIN config.Providers
        keys == {DATE}
                  \cup {k \in {FROM_NAME} :
                          hasProvider /\ config.Providers[selectedProvider].FromName # <<>>}
                  \cup {k \in {FROM_EMAIL} :
                          hasProvider /\ config.Providers[selectedProvider].FromAddress # <<>>}
    IN  [k \in keys |->
            IF k = DATE THEN Format(DateFormat, now)
            ELSE IF k = FROM_NAME THEN config.Providers[selectedProvider].FromName
            ELSE config.Providers[selectedProvider].FromAddress]

\* (2) the From field of the form, when it holds an address: its address,
\* and its display name when it has one
OverrideSource ==
    LET addr == ParseAddress(TrimSpace(inputs.fromInput))
        keys == {k \in {FROM_NAME} : addr.err = "" /\ addr.Name # <<>>}
                  \cup {k \in {FROM_EMAIL} : addr.err = "" /\ addr.Address # <<>>}
    IN  [k \in keys |-> IF k = FROM_NAME THEN addr.Name ELSE addr.Address]

\* (3) what the user typed into the prompt
PromptSource ==
    [k \in entered |-> SubmittedValues(variablePrompt)[k]]

\* the keys at least one source supplies, each with the value of the
\* highest source that supplies it
Winners ==
    [k \in DOMAIN SystemSource \cup DOMAIN OverrideSource \cup DOMAIN PromptSource |->
        IF k \in DOMAIN PromptSource THEN PromptSource[k]
        ELSE IF k \in DOMAIN OverrideSource THEN OverrideSource[k]
        ELSE SystemSource[k]]

\* C10: when the prompt is submitted, the subject and body written into the
\* form are the template rendered with, for every key some source supplies,
\* the value of the highest-priority source that supplies it (prompt over
\* From field over system defaults); the other prompt variables are absent
\* or empty.
C10_HighestSourceWins ==
    [][ (showVarPrompt /\ pc' = "submitted") =>
          \E blank \in SUBSET (Range(variablePrompt.variables) \ DOMAIN Winners) :
             LET used == [k \in DOMAIN Winners \cup blank |->
                             IF k \in DOMAIN Winners THEN Winners[k] ELSE <<>>]
             IN  \E r \in RenderTemplate(variablePrompt.template, used) :
                    /\ inputs'.subjectInput = r.subject
                    /\ textarea' = r.body ]_vars

\* a submitted prompt in which from_name came from the provider ("P") and
\* from the From field ("J"), and from_email from both of them and from the
\* prompt ("U"): the form shows "J" and "U"
C10_Witness ==
    /\ pc = "submitted"
    /\ selectedProvider = "main"
    /\ config.Providers["main"].FromName = <<"P">>
    /\ inputs.fromInput = <<"J", SP, "<", "j", "@", "x", ">">>
    /\ TemplatesList[1].Subject = Placeholder(FROM_NAME)
    /\ inputs.subjectInput = <<"J">>
    /\ textarea = <<"U">>

\* the prompt variables no source supplies: no system default, no From
\* override, nothing typed into their input
Unsupplied == Range(variablePrompt.variables) \ DOMAIN Winners

\* C11: when the prompt is submitted, a placeholder of the template whose
\* key no source supplies stands, as the same literal placeholder, in the
\* subject and the body written into the form, and nothing fails.
C11_UnsuppliedKept ==
    [][ showVarPrompt /\ pc' \in {"submitted", "panic"} =>
          /\ pc' = "submitted"
          /\ \A k \in Unsupplied :
                /\ IsSubstring(Placeholder(k), variablePrompt.template.Subject)
                      => IsSubstring(Placeholder(k), inputs'.subjectInput)
                /\ IsSubstring(Placeholder(k), variablePrompt.template.Body)
                      => IsSubstring(Placeholder(k), textarea') ]_vars

-----------------------------------------------------------------------------
(* parseFromField: the text of the From field becomes an address and a     *)
(* display name.  A pointer is a sequence of no element (nil) or one (the  *)
(* value pointed to).  An error made by fmt.Errorf("...'%s': %w", text,    *)
(* cause) is the record of the text it quotes and the cause it wraps, the  *)
(* cause being the message of mail.ParseAddress's error.                   *)

\* strings.HasSuffix(s, suffix)
HasSuffix(s, suffix) ==
    /\ Len(s) >= Len(suffix)
    /\ SubSeq(s, Len(s) - Len(suffix) + 1, Len(s)) = suffix

\* strings.Contains(s, sub)
Contains(s, sub) == Index(s, sub) # -1

\* providerConfig != nil && providerConfig.Mailgun != nil &&
\* providerConfig.Mailgun.Domain != ""
HasDomain(p) ==
    /\ p # <<>>
    /\ p[1].Mailgun # <<>>
    /\ p[1].Mailgun[1].Domain # <<>>

\* the text as it is, whatever the provider
AppendNothing(text, p) == text

\* a text that ends with "@" gets the Mailgun domain of the provider, when
\* there is one
AppendDomain(text, p) ==
    IF HasSuffix(text, <<"@">>) /\ HasDomain(p)
    THEN text \o p[1].Mailgun[1].Domain
    ELSE text

\* return "", "", fmt.Errorf("invalid email address '%s': %w", input, parseErr)
InvalidAddress(text, parseErr) ==
    [email |-> <<>>, name |-> <<>>, err |-> [quoted |-> text, wrapped |-> parseErr]]

\* the fallback reporting the error of its own validation
ValidateReportingOwn(text, parseErr, emailPart, namePart) ==
    IF ParseAddress(emailPart).err = ""
    THEN [email |-> emailPart, name |-> namePart, err |-> Nil]
    ELSE InvalidAddress(text, ParseAddress(emailPart).err)

\* the fallback: the address candidate is validated
ValidateEmailPart(text, parseErr, emailPart, namePart) ==
    IF ParseAddress(emailPart).err = ""
    THEN [email |-> emailPart, name |-> namePart, err |-> Nil]
    ELSE InvalidAddress(text, parseErr)

\* no name from the text before "<"
NameNone(text, startIdx) == <<>>

\* the fallback: the name is the text before "<", if startIdx > 0
NameBefore(text, startIdx) ==
    IF startIdx > 0 THEN TrimSpace(Slice(text, 0, startIdx)) ELSE <<>>

\* the name as it is, the text behind ">" left alone
NameKept(text, endIdx, namePart) == namePart

\* the fallback: the name is the text behind ">", if there is any and the
\* text before "<" gave none
NameBehind(text, endIdx, namePart) ==
    IF endIdx < Len(text) - 1 /\ namePart = <<>>
    THEN TrimSpace(Slice(text, endIdx + 1, Len(text)))
    ELSE namePart

\* the fallback, with the offsets of "<" and ">"
BetweenBrackets(text, p, parseErr, startIdx, endIdx) ==
    IF startIdx < endIdx
    THEN ValidateEmailPart(text, parseErr,
                           AppendDomain(TrimSpace(Slice(text, startIdx + 1, endIdx)), p),
                           NameBehind(text, endIdx, NameBefore(text, startIdx)))
    ELSE InvalidAddress(text, parseErr)

\* the fallback: the text is taken apart at "<" and ">"
ManualExtraction(text, p, parseErr) ==
    IF Contains(text, <<"<">>) /\ Contains(text, <<">">>)
    THEN BetweenBrackets(text, p, parseErr, Index(text, <<"<">>), Index(text, <<">">>))
    ELSE InvalidAddress(text, parseErr)

\* after addr, parseErr := mail.ParseAddress(input)
AfterParseAddress(text, p, addr) ==
    IF addr.err = ""
    THEN [email |-> addr.Address, name |-> addr.Name, err |-> Nil]
    ELSE ManualExtraction(text, p, addr.err)

\* the standard parse of the input, the domain appended
StandardParsing(text, p) == AfterParseAddress(text, p, ParseAddress(text))

\* after input = strings.TrimSpace(input)
ParseTrimmed(text, p) ==
    IF text = <<>> THEN [email |-> <<>>, name |-> <<>>, err |-> Nil]
    ELSE StandardParsing(AppendDomain(text, p), p)

\* parseFromField without the TrimSpace of its first line
ParseUntrimmed(text, p) == ParseTrimmed(text, p)

\* parseFromField(input, providerConfig)
parseFromField(text, p) == ParseTrimmed(TrimSpace(text), p)

-----------------------------------------------------------------------------
(* Runs of parseFromField: Init draws the input and the provider, the      *)
(* one action is the call.                                                 *)

MaxFromTokens == 3

\* what a From text is made of
FromTokens ==
    { <<"J">>, <<"J", SP, SP, "D">>, <<SP>>, <<VT>>, <<"<">>, <<">">>,
      <<"j", "@", "x">>, <<"j", "@">>,
      <<"<", "j", "@", "x", ">">>, <<"<", "j", "@", ">">> }

\* the providers a call can get: none, one that is no Mailgun provider, a
\* Mailgun provider without a domain, a Mailgun provider of the domain "x"
ProviderConfigs ==
    { <<>>,
      << [Mailgun |-> <<>>] >>,
      << [Mailgun |-> << [Domain |-> <<>>] >>] >>,
      << [Mailgun |-> << [Domain |-> <<"x">>] >>] >> }

ParseFromInit ==
    /\ pc = "parseFrom"
    /\ \E n \in 0..MaxFromTokens : \E ts \in [1..n -> FromTokens] : input = Flatten(ts)
    /\ providerConfig \in ProviderConfigs
    /\ result = [email |-> <<>>, name |-> <<>>, err |-> Nil]
    /\ recipients = <<>>
    /\ split = [emails |-> <<>>, err |-> Nil]
    /\ ExtractIdle
    /\ StoreIdle
    /\ RenderIdle
    /\ ComposeIdle
    /\ SendIdle
    /\ HistoryIdle
    /\ SettingsIdle
    /\ FlowsIdle

\* email, name, err := parseFromField(input, providerConfig)
ParseFromCall ==
    /\ pc = "parseFrom"
    /\ result' = parseFromField(input, providerConfig)
    /\ pc' = "parsedFrom"
    /\ UNCHANGED <<input, providerConfig, recipients, split, extractVars, storeVars,
                   renderVars, composeVars, sendVars, historyVars, settingsVars, flowVars>>

ParseFromNext == ParseFromCall

SpecParseFrom == ParseFromInit /\ [][ParseFromNext]_vars

-----------------------------------------------------------------------------
(* splitEmails: a recipient field is split at the commas, the parts are    *)
(* trimmed, the empty ones dropped and the others validated.               *)

COMMA == ","

\* strings.Split(s, ","): the parts, the one under way being part
RECURSIVE SplitFrom(_, _)
SplitFrom(s, part) ==
    IF s = <<>> THEN <<part>>
    ELSE IF Head(s) = COMMA THEN <<part>> \o SplitFrom(Tail(s), <<>>)
    ELSE SplitFrom(Tail(s), Append(part, Head(s)))

\* strings.Split(s, ",")
Split(s) == SplitFrom(s, <<>>)

\* return nil, fmt.Errorf("invalid email '%s': %w", email, err)
InvalidEmail(email, parseErr) ==
    [emails |-> <<>>, err |-> [quoted |-> email, wrapped |-> parseErr]]

\* the loop that stops at no invalid part: it leaves the part out
RECURSIVE SkipInvalidParts(_, _)
SkipInvalidParts(parts, emails) ==
    IF parts = <<>> THEN [emails |-> emails, err |-> Nil]
    ELSE IF TrimSpace(Head(parts)) = <<>> \/ ParseAddress(TrimSpace(Head(parts))).err # ""
    THEN SkipInvalidParts(Tail(parts), emails)
    ELSE SkipInvalidParts(Tail(parts), Append(emails, TrimSpace(Head(parts))))

\* the loop over the parts, one part after the other
RECURSIVE ValidateParts(_, _)
RECURSIVE ValidatePart(_, _, _)
ValidateParts(parts, emails) ==
    IF parts = <<>> THEN [emails |-> emails, err |-> Nil]
    ELSE ValidatePart(TrimSpace(Head(parts)), Tail(parts), emails)

\* the body of the loop, email being the trimmed part
ValidatePart(email, parts, emails) ==
    IF email = <<>> THEN ValidateParts(parts, emails)
    ELSE IF ParseAddress(email).err # "" THEN InvalidEmail(email, ParseAddress(email).err)
    ELSE ValidateParts(parts, Append(emails, email))

\* splitEmails(s)
splitEmails(s) ==
    IF s = <<>> THEN [emails |-> <<>>, err |-> Nil]
    ELSE ValidateParts(Split(s), <<>>)

-----------------------------------------------------------------------------
(* Runs of splitEmails: Init draws the field, the one action is the call.  *)

MaxFieldTokens == 5

\* what a recipient field is made of
FieldTokens ==
    { <<COMMA>>, <<SP>>, <<"j", "@", "x">>, <<"k", "@", "y">>, <<"J">>, <<"@">> }

SplitInit ==
    /\ pc = "split"
    /\ \E n \in 0..MaxFieldTokens : \E ts \in [1..n -> FieldTokens] :
          recipients = Flatten(ts)
    /\ split = [emails |-> <<>>, err |-> Nil]
    /\ input = <<>>
    /\ providerConfig = <<>>
    /\ result = [email |-> <<>>, name |-> <<>>, err |-> Nil]
    /\ ExtractIdle
    /\ StoreIdle
    /\ RenderIdle
    /\ ComposeIdle
    /\ SendIdle
    /\ HistoryIdle
    /\ SettingsIdle
    /\ FlowsIdle

\* emails, err := splitEmails(s)
SplitCall ==
    /\ pc = "split"
    /\ split' = splitEmails(recipients)
    /\ pc' = "splitDone"
    /\ UNCHANGED <<recipients, input, providerConfig, result, extractVars, storeVars,
                   renderVars, composeVars, sendVars, historyVars, settingsVars, flowVars>>

SplitNext == SplitCall

SpecSplit == SplitInit /\ [][SplitNext]_vars

-----------------------------------------------------------------------------
(* Sending: enter on the send button starts the command sendEmail, which   *)
(* validates the fields (GetEmailData) and produces a message; AppModel    *)
(* handles the message.  Commands run on their own, so a command under way *)
(* and the messages not yet handled are kept in msg, and the user can type *)
(* while they are there.  An error text is the sequence of its parts.      *)
(* Attachments, the provider selector and the other tabs are left out.     *)

MaxSubmits == 1

\* EmailData{}
NoData ==
    [From |-> <<>>, FromName |-> <<>>, To |-> <<>>, CC |-> <<>>, BCC |-> <<>>,
     Subject |-> <<>>, Body |-> <<>>]

\* return EmailData{}, fmt.Errorf("<field> field: %w", err)
FieldError(field, err) ==
    [Data |-> NoData, Error |-> <<field, err.quoted, err.wrapped>>]

\* providerConfig, _ := m.config.GetProvider(m.selectedProvider)
GetProvider(cfg, name) ==
    IF name \in DOMAIN cfg.Providers THEN <<cfg.Providers[name]>> ELSE <<>>

\* GetEmailData: the From field is parsed, the data are put together
AfterFrom(ins, text, to, cc, bcc, from) ==
    IF from.err # Nil THEN FieldError("From field", from.err)
    ELSE [Data |-> [From |-> from.email, FromName |-> from.name, To |-> to,
                    CC |-> cc, BCC |-> bcc, Subject |-> ins.subjectInput,
                    Body |-> text],
          Error |-> <<>>]

\* GetEmailData, after the BCC field was split
AfterBCC(ins, text, cfg, provider, to, cc, bcc) ==
    IF bcc.err # Nil THEN FieldError("BCC field", bcc.err)
    ELSE IF ins.fromInput # <<>>
    THEN AfterFrom(ins, text, to, cc, bcc.emails,
                   parseFromField(ins.fromInput, GetProvider(cfg, provider)))
    ELSE AfterFrom(ins, text, to, cc, bcc.emails,
                   [email |-> <<>>, name |-> <<>>, err |-> Nil])

\* GetEmailData, after the CC field was split
AfterCC(ins, text, cfg, provider, to, cc) ==
    IF cc.err # Nil THEN FieldError("CC field", cc.err)
    ELSE AfterBCC(ins, text, cfg, provider, to, cc.emails, splitEmails(ins.bccInput))

\* GetEmailData that goes on with an empty list when the To field is invalid
AfterToUnchecked(ins, text, cfg, provider, to) ==
    AfterCC(ins, text, cfg, provider, to.emails, splitEmails(ins.ccInput))

\* GetEmailData, after the To field was split
AfterTo(ins, text, cfg, provider, to) ==
    IF to.err # Nil THEN FieldError("To field", to.err)
    ELSE AfterCC(ins, text, cfg, provider, to.emails, splitEmails(ins.ccInput))

\* ComposeModel.GetEmailData
GetEmailData(ins, text, cfg, provider) ==
    AfterTo(ins, text, cfg, provider, splitEmails(ins.toInput))

\* the command sendEmail has made of the model it was started with
SendCmd(provider) ==
    [type |-> "sendEmail", Data |-> NoData, ProviderName |-> provider, Error |-> <<>>]

\* the message the command returns
MessageOf(data, provider) ==
    IF data.Error # <<>>
    THEN [type |-> "EmailValidationErrorMsg", Data |-> NoData, ProviderName |-> "",
          Error |-> data.Error]
    ELSE [type |-> "SendEmailMsg", Data |-> data.Data, ProviderName |-> provider,
          Error |-> <<>>]

\* Mailer.Send: the errors it can return for the data, <<>> being none; the
\* driver succeeds or fails
SendErrors(data) ==
    IF data.To = <<>> THEN { <<"at least one recipient is required">> }
    ELSE IF data.Subject = <<>> THEN { <<"subject is required">> }
    ELSE IF data.Body = <<>> THEN { <<"body is required">> }
    ELSE { <<>>, <<"failed to send email">> }

\* an entry that reports success whatever Send returned
EntryOfSuccess(m, err) ==
    [From |-> m.Data.From, To |-> m.Data.To, CC |-> m.Data.CC, BCC |-> m.Data.BCC,
     Subject |-> m.Data.Subject, Body |-> m.Data.Body, ProviderName |-> m.ProviderName,
     Status |-> "success", Error |-> <<>>]

\* storage.SentEmail, as AppModel fills it in
HistoryEntry(m, err) ==
    [From |-> m.Data.From, To |-> m.Data.To, CC |-> m.Data.CC, BCC |-> m.Data.BCC,
     Subject |-> m.Data.Subject, Body |-> m.Data.Body, ProviderName |-> m.ProviderName,
     Status |-> IF err # <<>> THEN "failed" ELSE "success", Error |-> err]

\* History.Save: of more entries than MaxEntries the last MaxEntries stay
HistorySave(emails, max) ==
    IF Len(emails) > max
    THEN SubSeq(emails, Len(emails) - max + 1, Len(emails))
    ELSE emails

\* History.Add: the entry is appended, the history saved
HistoryAdd(emails, email, max) == HistorySave(Append(emails, email), max)

\* history.json as Save writes it
HistoryFile(emails, max) == << [Emails |-> emails, MaxEntries |-> max] >>

\* AppModel.Update, case SendEmailMsg: the provider as it is, or with a
\* custom From a copy of it that carries the address, and the name if any
ModifiedConfig(p, data) ==
    IF data.From = <<>> THEN p
    ELSE [p EXCEPT !.FromAddress = data.From,
                   !.FromName = IF data.FromName # <<>> THEN data.FromName ELSE @]

\* NewWithLimits: the mail.Config the driver is made with
MailConfigOf(p) ==
    IF p.Type = "smtp"
    THEN [FromAddress |-> p.SMTP[1].Username, FromName |-> p.FromName]
    ELSE [FromAddress |-> p.FromAddress, FromName |-> p.FromName]

\* s without its i-th element
Without(s, i) == SubSeq(s, 1, i - 1) \o SubSeq(s, i + 1, Len(s))

\* what the user types into the To, the CC and the BCC field
ToTexts == { <<>>, <<"j", "@", "x">>, <<"j", "@", "x", COMMA, "J">> }
CcTexts == { <<>>, <<"@">> }
BccTexts == { <<>>, <<"J">> }

\* the configurations: DefaultConfig (no provider), and a file with the
\* Mailgun provider "main" of the domain "x"
SendConfigs ==
    { [DefaultProvider |-> "", DateFormat |-> DefaultDateFormat, Providers |-> <<>>],
      [DefaultProvider |-> "main", DateFormat |-> DefaultDateFormat,
       Providers |-> [n \in {"main"} |->
                        [Type |-> "mailgun", FromName |-> <<>>,
                         FromAddress |-> <<"p", "@", "x">>, SMTP |-> <<>>,
                         Mailgun |-> << [Domain |-> <<"x">>] >>]]],
      [DefaultProvider |-> "main", DateFormat |-> DefaultDateFormat,
       Providers |-> [n \in {"main"} |->
                        [Type |-> "smtp", FromName |-> <<"P">>,
                         FromAddress |-> <<"p", "@", "x">>,
                         SMTP |-> << [Username |-> <<"u">>] >>,
                         Mailgun |-> <<>>]]] }

\* the form after NewComposeModel, a subject and a body typed in
SendInit ==
    /\ pc = "compose"
    /\ config \in SendConfigs
    /\ selectedProvider = config.DefaultProvider
    /\ inputs = [EmptyInputs EXCEPT !.subjectInput = <<"s">>]
    /\ textarea = <<"b">>
    /\ showPicker = FALSE
    /\ showVarPrompt = FALSE
    /\ variablePrompt = NoPrompt
    /\ entered = {}
    /\ insertions = 0
    /\ SendIdle
    /\ HistoryIdle
    /\ SettingsIdle
    /\ FlowsIdle
    /\ ExtractIdle
    /\ StoreIdle
    /\ RenderIdle
    /\ ValidationIdle

\* the user types into the To field
ToInputType ==
    /\ FormShown
    /\ \E text \in ToTexts : inputs' = [inputs EXCEPT !.toInput = text]
    /\ UNCHANGED <<pc, config, selectedProvider, textarea, showPicker, showVarPrompt,
                   variablePrompt, entered, insertions,
                   extractVars, storeVars, renderVars, validationVars, sendVars, historyVars, settingsVars, flowVars>>

\* the user types into the CC field
CcInputType ==
    /\ FormShown
    /\ \E text \in CcTexts : inputs' = [inputs EXCEPT !.ccInput = text]
    /\ UNCHANGED <<pc, config, selectedProvider, textarea, showPicker, showVarPrompt,
                   variablePrompt, entered, insertions,
                   extractVars, storeVars, renderVars, validationVars, sendVars, historyVars, settingsVars, flowVars>>

\* the user types into the BCC field
BccInputType ==
    /\ FormShown
    /\ \E text \in BccTexts : inputs' = [inputs EXCEPT !.bccInput = text]
    /\ UNCHANGED <<pc, config, selectedProvider, textarea, showPicker, showVarPrompt,
                   variablePrompt, entered, insertions,
                   extractVars, storeVars, renderVars, validationVars, sendVars, historyVars, settingsVars, flowVars>>

\* enter on the send button: m.isSending = true; return m, m.sendEmail()
PressSend ==
    /\ FormShown
    /\ Len(msg) + Len(history) < MaxSubmits
    /\ isSending' = TRUE
    /\ msg' = Append(msg, SendCmd(selectedProvider))
    /\ UNCHANGED <<pc, sent, history, errorMsg, mailConfig, historyVars, composeVars,
                   extractVars, storeVars, renderVars, validationVars,
                   settingsVars, flowVars>>

\* the command sendEmail runs: the fields are read and validated, the
\* message is made
RunSendEmail ==
    /\ \E i \in 1..Len(msg) :
          /\ msg[i].type = "sendEmail"
          /\ msg' = [msg EXCEPT ![i] =
                        MessageOf(GetEmailData(inputs, textarea, config,
                                               msg[i].ProviderName),
                                  msg[i].ProviderName)]
    /\ UNCHANGED <<pc, isSending, sent, history, errorMsg, mailConfig, historyVars,
                   composeVars, extractVars, storeVars, renderVars, validationVars,
                   settingsVars, flowVars>>

\* AppModel.Update, case EmailValidationErrorMsg
HandleValidationError ==
    /\ \E i \in 1..Len(msg) :
          /\ msg[i].type = "EmailValidationErrorMsg"
          /\ errorMsg' = <<"Validation error">> \o msg[i].Error
          /\ msg' = Without(msg, i)
    /\ isSending' = FALSE
    /\ UNCHANGED <<pc, sent, history, mailConfig, historyVars, composeVars,
                   extractVars, storeVars, renderVars, validationVars,
                   settingsVars, flowVars>>

\* AppModel.Update, case SendEmailMsg: a return before the mailer is there
SendRefused(reason) ==
    /\ errorMsg' = <<reason>>
    /\ isSending' = FALSE
    /\ UNCHANGED <<sent, history, mailConfig, historyFile, composeVars>>

\* AppModel.Update, case SendEmailMsg: ml.Send(emailData) has returned err
AfterSend(m, err) ==
    /\ mailConfig' = Append(mailConfig,
                            MailConfigOf(ModifiedConfig(
                                GetProvider(config, m.ProviderName)[1], m.Data)))
    /\ sent' = Append(sent, m.Data)
    /\ history' = HistoryAdd(history, HistoryEntry(m, err), maxEntries)
    /\ historyFile' = HistoryFile(history', maxEntries)
    /\ isSending' = FALSE
    /\ IF err # <<>>
       THEN /\ errorMsg' = <<"Failed to send email">> \o err
            /\ UNCHANGED composeVars
       ELSE /\ errorMsg' = <<>>
            /\ inputs' = EmptyInputs
            /\ textarea' = <<>>
            /\ UNCHANGED <<config, selectedProvider, showPicker, showVarPrompt,
                           variablePrompt, entered, insertions>>

\* AppModel.Update, case SendEmailMsg
HandleSendEmail ==
    /\ \E i \in 1..Len(msg) :
          /\ msg[i].type = "SendEmailMsg"
          /\ msg' = Without(msg, i)
          /\ IF msg[i].ProviderName = "" THEN SendRefused("Please select a provider")
             ELSE IF GetProvider(config, msg[i].ProviderName) = <<>>
             THEN SendRefused("Provider error")
             ELSE \/ SendRefused("Failed to initialize mailer")
                  \/ \E err \in SendErrors(msg[i].Data) : AfterSend(msg[i], err)
    /\ UNCHANGED <<pc, maxEntries, maxHistoryEntries, extractVars, storeVars,
                   renderVars, validationVars, settingsVars, flowVars>>

SendNext ==
    \/ FromInputType
    \/ ToInputType
    \/ CcInputType
    \/ BccInputType
    \/ PressSend
    \/ RunSendEmail
    \/ HandleValidationError
    \/ HandleSendEmail

SpecSend == SendInit /\ [][SendNext]_vars

-----------------------------------------------------------------------------
(* The claims about parseFromField. *)

\* the call has returned
Parsed == pc = "parsedFrom"

\* the input holds white space only, or nothing
Blank(text) == \A i \in 1..Len(text) : IsSpace(text[i])

\* C12: an input that is empty or holds white space only gives the empty
\* address, the empty name and no error, whatever the provider is (none
\* included).
C12_BlankIsEmpty ==
    Parsed /\ Blank(input) =>
        result = [email |-> <<>>, name |-> <<>>, err |-> Nil]

\* a blank and a vertical tab, a Mailgun provider with a domain
C12_Witness ==
    /\ Parsed
    /\ input = <<SP, VT>>
    /\ HasDomain(providerConfig)
    /\ result.email = <<>>
    /\ result.err = Nil

\* the domain the provider is configured with
DomainOf(p) == p[1].Mailgun[1].Domain

\* the input without the white space around it
Given == TrimSpace(input)

\* the input ends with "@" and the provider has a domain
Shorthand == Parsed /\ HasSuffix(Given, <<"@">>) /\ HasDomain(providerConfig)

\* the input as the primary parse gets it: the domain after a last "@"
Whole ==
    IF HasSuffix(Given, <<"@">>) /\ HasDomain(providerConfig)
    THEN Given \o DomainOf(providerConfig)
    ELSE Given

\* the primary parse of the whole input fails
PrimaryFails == Parsed /\ Given # <<>> /\ ParseAddress(Whole).err # ""

\* the offsets of the first "<" and the first ">" of the input
FirstLess == Index(Whole, <<"<">>)
FirstGreater == Index(Whole, <<">">>)

\* the fallback has an address candidate: the primary parse fails and the
\* first ">" comes after the first "<"
HasCandidate == PrimaryFails /\ FirstLess # -1 /\ FirstLess < FirstGreater

\* the trimmed text strictly between the brackets
Candidate == TrimSpace(Slice(Whole, FirstLess + 1, FirstGreater))

\* a run of atom characters other than the dot
PlainAtom(text) ==
    /\ text # <<>>
    /\ \A i \in 1..Len(text) : IsAtext(text[i], FALSE, FALSE)

\* C13: an input that ends with "@" is parsed with the domain of the
\* provider appended, when the provider has one: "user@" gives the address
\* "user@" + domain, no name and no error; in the fallback an address
\* candidate that ends with "@" is completed with the domain before it is
\* validated.
C13_DomainAppended ==
    /\ Shorthand /\ ParseAddress(Given \o DomainOf(providerConfig)).err = "" =>
          /\ result.email = ParseAddress(Given \o DomainOf(providerConfig)).Address
          /\ result.name = ParseAddress(Given \o DomainOf(providerConfig)).Name
          /\ result.err = Nil
    /\ Shorthand /\ PlainAtom(SubSeq(Given, 1, Len(Given) - 1)) =>
          result = [email |-> Given \o DomainOf(providerConfig), name |-> <<>>,
                    err |-> Nil]
    /\ /\ HasCandidate
       /\ HasSuffix(Candidate, <<"@">>)
       /\ HasDomain(providerConfig)
       /\ ParseAddress(Candidate \o DomainOf(providerConfig)).err = ""
       => /\ result.email = Candidate \o DomainOf(providerConfig)
          /\ result.err = Nil

\* "j@" with the domain "x" gives "j@x"
C13_Witness ==
    /\ Parsed
    /\ input = <<"j", "@">>
    /\ HasDomain(providerConfig)
    /\ result = [email |-> <<"j", "@", "x">>, name |-> <<>>, err |-> Nil]

\* "<j@> J" with the domain "x": the fallback completes "j@"
C13_FallbackReached ==
    /\ HasCandidate
    /\ input = <<"<", "j", "@", ">", SP, "J">>
    /\ HasDomain(providerConfig)
    /\ result.email = <<"j", "@", "x">>

\* a bare address the mailbox grammar accepts as it is written
ValidAddress(a) ==
    /\ ParseAddress(a).err = ""
    /\ ParseAddress(a).Address = a
    /\ ParseAddress(a).Name = <<>>

\* a display name: some text without white space around it and without
\* angle brackets
DisplayName(n) ==
    /\ n # <<>>
    /\ TrimSpace(n) = n
    /\ \A i \in 1..Len(n) : n[i] \notin {"<", ">"}

\* the input is n, a blank, a in angle brackets: n is its first i characters
NameFirst(i) ==
    /\ i + 3 < Len(input)
    /\ input[i + 1] = SP
    /\ input[i + 2] = "<"
    /\ input[Len(input)] = ">"
    /\ DisplayName(SubSeq(input, 1, i))
    /\ ValidAddress(SubSeq(input, i + 3, Len(input) - 1))

\* the input is a in angle brackets, a blank, n: a is the characters 2..i
AddressFirst(i) ==
    /\ 2 < i /\ i + 2 < Len(input)
    /\ input[1] = "<"
    /\ input[i + 1] = ">"
    /\ input[i + 2] = SP
    /\ ValidAddress(SubSeq(input, 2, i))
    /\ DisplayName(SubSeq(input, i + 3, Len(input)))

\* the primary parse decides whenever it succeeds
PrimaryDecides ==
    Parsed /\ Given # <<>> /\ ParseAddress(Whole).err = "" =>
        result = [email |-> ParseAddress(Whole).Address,
                  name |-> ParseAddress(Whole).Name, err |-> Nil]

\* the result is the address a and the name n, without an error
Gives(a, n) == result = [email |-> a, name |-> n, err |-> Nil]

\* the name is one the two orders agree on: no two blanks in a row, and no
\* "@" at its end when the provider has a domain
Agreeable(n) ==
    /\ ~Contains(n, <<SP, SP>>)
    /\ ~(HasSuffix(n, <<"@">>) /\ HasDomain(providerConfig))

C14_NameFirstReached ==
    /\ Parsed
    /\ input = <<"J", SP, "<", "j", "@", "x", ">">>
    /\ NameFirst(1)
    /\ ~PrimaryFails
    /\ Gives(<<"j", "@", "x">>, <<"J">>)

\* the offset of the first ">" that comes after the first "<", -1 if none
GreaterAfterLess ==
    IF FirstLess = -1 \/ ~Contains(Slice(Whole, FirstLess + 1, Len(Whole)), <<">">>)
    THEN -1
    ELSE FirstLess + 1 + Index(Slice(Whole, FirstLess + 1, Len(Whole)), <<">">>)

\* the text between the first "<" and the first ">" after it, trimmed, and
\* completed with the domain as C13 has it
Bracketed == TrimSpace(Slice(Whole, FirstLess + 1, GreaterAfterLess))
BracketedAddress ==
    IF HasSuffix(Bracketed, <<"@">>) /\ HasDomain(providerConfig)
    THEN Bracketed \o DomainOf(providerConfig)
    ELSE Bracketed

\* C15: the fallback takes the first "<" of the input and the first ">"
\* that comes after that "<": whenever the primary parse fails, there is a
\* "<" and a ">" after it, and the text between the two is a valid address,
\* that address is returned.
C15_FirstGreaterAfterLess ==
    PrimaryFails /\ GreaterAfterLess # -1 /\ ParseAddress(BracketedAddress).err = "" =>
        /\ result.err = Nil
        /\ result.email = BracketedAddress

\* the trimmed text before the first "<" and the trimmed text behind the
\* first ">"
TextBefore == TrimSpace(Slice(Whole, 0, FirstLess))
TextBehind == TrimSpace(Slice(Whole, FirstGreater + 1, Len(Whole)))

\* the address candidate, completed with the domain as C13 has it
CandidateAddress ==
    IF HasSuffix(Candidate, <<"@">>) /\ HasDomain(providerConfig)
    THEN Candidate \o DomainOf(providerConfig)
    ELSE Candidate

\* C16: in the fallback the address candidate is the trimmed text strictly
\* between the brackets, and the name returned is the trimmed text before
\* "<" when there is any, otherwise the trimmed text behind ">"; a valid
\* candidate is returned as the address.
C16_BetweenBeforeBehind ==
    HasCandidate /\ ParseAddress(CandidateAddress).err = "" =>
        /\ result.err = Nil
        /\ result.email = CandidateAddress
        /\ result.name = IF TextBefore # <<>> THEN TextBefore ELSE TextBehind

\* "J  D<j@x>J": the name is the text before "<", the text behind ">" is
\* ignored
C16_Witness ==
    /\ HasCandidate
    /\ input = <<"J", SP, SP, "D", "<", "j", "@", "x", ">", "J">>
    /\ TextBehind = <<"J">>
    /\ result = [email |-> <<"j", "@", "x">>, name |-> <<"J", SP, SP, "D">>,
                 err |-> Nil]

\* the fallback fails: no "<", no ">" after it, or no valid address between
FallbackFails ==
    \/ GreaterAfterLess = -1
    \/ ParseAddress(BracketedAddress).err # ""

\* C17: when the primary parse and the fallback both fail, the error
\* returned has the primary parse's error as its reason, never the
\* fallback's, and the address and the name are empty.
C17_PrimaryErrorReported ==
    /\ PrimaryFails /\ FallbackFails => result.err # Nil
    /\ Parsed /\ result.err # Nil =>
          /\ PrimaryFails
          /\ result.err.wrapped = ParseAddress(Whole).err
          /\ result.email = <<>>
          /\ result.name = <<>>

\* "J <j@>" without a domain: the primary parse finds no domain before
\* ">", the validation of "j@" in the fallback misses the angle brackets
C17_Witness ==
    /\ PrimaryFails
    /\ input = <<"J", SP, "<", "j", "@", ">">>
    /\ Candidate = <<"j", "@">>
    /\ ParseAddress(Candidate).err = "mail: no angle-addr"
    /\ result.err.wrapped = "mail: invalid string"

\* C18: every error parseFromField returns carries the input as the caller
\* passed it, and the reason the grammar gives.
C18_ErrorCarriesInput ==
    Parsed /\ result.err # Nil =>
        /\ result.err.quoted = input
        /\ result.err.wrapped # ""

-----------------------------------------------------------------------------
(* The claim about splitEmails. *)

\* the call has returned
SplitDone == pc = "splitDone"

\* where an element of the field starts: behind offset 0 and behind every
\* comma; where it ends: before the next comma or the end of the field
Starts == {0} \cup {i \in 1..Len(recipients) : recipients[i] = COMMA}
EndOf(a) ==
    CHOOSE b \in (a + 1)..(Len(recipients) + 1) :
        /\ b = Len(recipients) + 1 \/ recipients[b] = COMMA
        /\ \A i \in (a + 1)..(b - 1) : recipients[i] # COMMA

\* the element that starts behind a, trimmed
ElementAt(a) == TrimSpace(SubSeq(recipients, a + 1, EndOf(a) - 1))

\* the starts of the elements that are not empty, and of those among them
\* that are no valid address
NonEmpty == {a \in Starts : ElementAt(a) # <<>>}
Offending == {a \in NonEmpty : ParseAddress(ElementAt(a)).err # ""}

\* the place of the element at a among the non-empty ones
Rank(a) == Cardinality({b \in NonEmpty : b <= a})

\* C19: a recipient field is accepted as a whole or not at all: with an
\* element (trimmed, non-empty) that is no valid address the call returns
\* no list and an error that names the leftmost such element; without one
\* it returns every non-empty element, in the order of the field.
C19_AllOrNothing ==
    SplitDone =>
        IF Offending # {}
        THEN /\ split.emails = <<>>
             /\ split.err # Nil
             /\ \E a \in Offending :
                   /\ \A b \in Offending : a <= b
                   /\ split.err.quoted = ElementAt(a)
                   /\ split.err.wrapped = ParseAddress(ElementAt(a)).err
        ELSE /\ split.err = Nil
             /\ Len(split.emails) = Cardinality(NonEmpty)
             /\ \A a \in NonEmpty : split.emails[Rank(a)] = ElementAt(a)

\* "j@x,J,@": the valid first element is not returned, the error names "J"
C19_Witness ==
    /\ SplitDone
    /\ recipients = <<"j", "@", "x", COMMA, "J", COMMA, "@">>
    /\ Cardinality(Offending) = 2
    /\ split.emails = <<>>
    /\ split.err.quoted = <<"J">>

\* "j@x, k@y": both elements are returned, in this order
C19_BothReturned ==
    /\ SplitDone
    /\ recipients = <<"j", "@", "x", COMMA, SP, "k", "@", "y">>
    /\ split = [emails |-> << <<"j", "@", "x">>, <<"k", "@", "y">> >>, err |-> Nil]

-----------------------------------------------------------------------------
(* The claim about sending. *)

\* a field of the form is invalid as the validation of C12 to C19 has it
ValidationFails ==
    \/ splitEmails(inputs.toInput).err # Nil
    \/ splitEmails(inputs.ccInput).err # Nil
    \/ splitEmails(inputs.bccInput).err # Nil
    \/ parseFromField(inputs.fromInput, GetProvider(config, selectedProvider)).err # Nil

\* every address of the list is a valid one
AllValid(emails) == \A i \in 1..Len(emails) : ParseAddress(emails[i]).err = ""

\* the data of a message are validated ones
Validated(data) ==
    /\ AllValid(data.To) /\ AllValid(data.CC) /\ AllValid(data.BCC)
    /\ data.From = <<>> \/ ParseAddress(data.From).err = ""

\* C20: a message goes to the transport only after From, To, CC and BCC
\* have validated: a send command that finds a field invalid produces an
\* EmailValidationErrorMsg and no SendEmailMsg, whose handling calls no
\* Mailer.Send and writes no history entry; Mailer.Send is called and a
\* history entry written only in handling a SendEmailMsg, with its data,
\* and these are validated.
C20_ValidatedBeforeSent ==
    [][ /\ \A i \in 1..Len(msg) :
              msg[i].type = "sendEmail" /\ Len(msg') = Len(msg)
              /\ msg'[i].type # "sendEmail" =>
                 /\ sent' = sent /\ history' = history
                 /\ IF ValidationFails
                    THEN msg'[i].type = "EmailValidationErrorMsg"
                    ELSE msg'[i].type = "SendEmailMsg" /\ Validated(msg'[i].Data)
        /\ sent' # sent \/ history' # history =>
              \E i \in 1..Len(msg) :
                 /\ msg[i].type = "SendEmailMsg"
                 /\ Validated(msg[i].Data)
                 /\ msg' = Without(msg, i)
                 /\ sent' = Append(sent, msg[i].Data)
                 /\ Len(history') = Len(history) + 1
                 /\ history'[Len(history')].To = msg[i].Data.To
        /\ \A i \in 1..Len(msg) :
              msg[i].type = "EmailValidationErrorMsg" /\ msg' = Without(msg, i) =>
                 sent' = sent /\ history' = history ]_vars

\* a submit with the CC field "@" has been handled: the error is shown,
\* nothing was sent, the history is empty
C20_Witness ==
    /\ inputs.toInput = <<"j", "@", "x">>
    /\ inputs.ccInput = <<"@">>
    /\ errorMsg = <<"Validation error", "CC field", <<"@">>, "mail: no angle-addr">>
    /\ ~isSending
    /\ msg = <<>>
    /\ sent = <<>>
    /\ history = <<>>

\* a submit with valid fields has been sent and is in the history
C20_SentReached ==
    /\ Len(sent) = 1
    /\ sent[1].To = << <<"j", "@", "x">> >>
    /\ sent[1].From = <<"j", "@", "x">>
    /\ history[1].Status = "success"
    /\ inputs = EmptyInputs

-----------------------------------------------------------------------------
(* The claims about the history of sent mail. *)

\* the message handed to Mailer.Send by the step, and the entry the step
\* has put at the end of the history
HandedOver == sent'[Len(sent')]
Recorded == history'[Len(history')]

\* the entry tells what was sent and how Send came back: errorMsg is empty
\* after a Send without error and carries the error text after a failed one
RecordsOutcome(e, d) ==
    /\ e.To = d.To /\ e.CC = d.CC /\ e.BCC = d.BCC
    /\ e.Subject = d.Subject /\ e.Body = d.Body /\ e.From = d.From
    /\ IF errorMsg' = <<>>
       THEN e.Status = "success" /\ e.Error = <<>>
       ELSE /\ e.Status = "failed"
            /\ e.Error # <<>>
            /\ errorMsg' = <<"Failed to send email">> \o e.Error

\* C21: every message handed to the transport gives exactly one entry
\* appended to the history, in the same step, that records the outcome:
\* status "success" and no error text when Send returned no error, status
\* "failed" and the error text when it returned one; no other step touches
\* the history.
C21_OneEntryPerSend ==
    [][IF sent' # sent
       THEN /\ sent' = Append(sent, HandedOver)
            /\ history' = Append(history, Recorded)
            /\ RecordsOutcome(Recorded, HandedOver)
       ELSE history' = history]_vars

\* a message was sent and the driver failed
C21_Witness ==
    /\ Len(sent) = 1
    /\ Len(history) = 1
    /\ history[1].Status = "failed"
    /\ history[1].Error = <<"failed to send email">>
    /\ history[1].To = << <<"j", "@", "x">> >>

\* a message was sent without error
C21_SuccessReached ==
    /\ Len(sent) = 1
    /\ Len(history) = 1
    /\ history[1].Status = "success"
    /\ historyFile = HistoryFile(history, maxEntries)

-----------------------------------------------------------------------------
(* The claims about the sender the driver is made with. *)

\* the mail.Config of the driver the step has made
Configured == mailConfig'[Len(mailConfig')]

\* C25: when the From field resolves to an address (and perhaps a name), the
\* driver is made with exactly that address as the sender, and with that
\* name when it is not empty, whatever the type of the provider.
C25_SenderIsResolved ==
    [][mailConfig' # mailConfig /\ HandedOver.From # <<>> =>
          /\ Configured.FromAddress = HandedOver.From
          /\ (HandedOver.FromName # <<>> =>
                 Configured.FromName = HandedOver.FromName)]_vars

-----------------------------------------------------------------------------
(* The history across runs of the application: NewAppModel loads it with
   the limit of the configuration, every sent message is added to it. *)

MaxLimit == 2     \* the limits max_history_entries is set to
MaxRecords == 3   \* the messages sent over all runs

\* Config.GetLimits: a limit of 0 is the default
GetLimits(configured) ==
    IF configured = 0 THEN DefaultMaxEntries ELSE configured

\* NewHistory
NewHistory(max) ==
    [Emails |-> <<>>, MaxEntries |-> IF max <= 0 THEN DefaultMaxEntries ELSE max]

\* LoadWithMaxEntries: without history.json a new history; otherwise the
\* history of the file, whose max_entries is replaced only when it is 0
LoadWithMaxEntries(file, max) ==
    IF file = <<>> THEN NewHistory(max)
    ELSE [Emails |-> file[1].Emails,
          MaxEntries |-> IF file[1].MaxEntries = 0 THEN max ELSE file[1].MaxEntries]

\* the values of max_history_entries in config.yaml, 0 for a key left out
HistoryLimits == 0..MaxLimit

\* the messages that are sent, and how Send comes back
HistoryMessages ==
    { [type |-> "SendEmailMsg",
       Data |-> [NoData EXCEPT !.To = << <<"j", "@", "x">> >>, !.Subject = <<s>>,
                               !.Body = <<"b">>],
       ProviderName |-> "main", Error |-> <<>>] : s \in {"s", "t"} }
HistoryOutcomes == { <<>>, <<"failed to send email">> }

\* the first start: no history.json yet
HistoryInit ==
    /\ pc = "history"
    /\ maxHistoryEntries \in HistoryLimits
    /\ historyFile = <<>>
    /\ history = NewHistory(GetLimits(maxHistoryEntries)).Emails
    /\ maxEntries = NewHistory(GetLimits(maxHistoryEntries)).MaxEntries
    /\ isSending = FALSE
    /\ msg = <<>>
    /\ sent = <<>>
    /\ errorMsg = <<>>
    /\ mailConfig = <<>>
    /\ ExtractIdle
    /\ StoreIdle
    /\ RenderIdle
    /\ ComposeIdle
    /\ ValidationIdle
    /\ SettingsIdle
    /\ FlowsIdle

\* AppModel.Update, case SendEmailMsg, from ml.Send on: the entry is added
HistoryRecord ==
    /\ pc = "history"
    /\ Len(sent) < MaxRecords
    /\ \E m \in HistoryMessages, err \in HistoryOutcomes :
          /\ sent' = Append(sent, m.Data)
          /\ history' = HistoryAdd(history, HistoryEntry(m, err), maxEntries)
    /\ historyFile' = HistoryFile(history', maxEntries)
    /\ UNCHANGED <<pc, maxEntries, maxHistoryEntries, isSending, msg, errorMsg,
                   mailConfig, extractVars, storeVars, renderVars, composeVars,
                   validationVars, settingsVars, flowVars>>

\* the application is left, max_history_entries is set in config.yaml (or
\* left as it is), the application starts again: NewAppModel
HistoryRestart ==
    /\ pc = "history"
    /\ \E limit \in HistoryLimits :
          /\ maxHistoryEntries' = limit
          /\ history' = LoadWithMaxEntries(historyFile, GetLimits(limit)).Emails
          /\ maxEntries' = LoadWithMaxEntries(historyFile, GetLimits(limit)).MaxEntries
    /\ UNCHANGED <<pc, historyFile, isSending, msg, sent, errorMsg, mailConfig,
                   extractVars, storeVars, renderVars, composeVars,
                   validationVars, settingsVars, flowVars>>

HistoryNext == HistoryRecord \/ HistoryRestart

SpecHistory == HistoryInit /\ [][HistoryNext]_vars

\* the limit in force after the step: max_history_entries, 100 when it is
\* not set
Limit == GetLimits(maxHistoryEntries')

\* the last n elements of s, all of s when it has fewer
LastOf(s, n) == IF Len(s) > n THEN SubSeq(s, Len(s) - n + 1, Len(s)) ELSE s

\* C22: after every History.Add the history holds no more entries than
\* max_history_entries allows, and the entries it holds are the ones added
\* last, in the order they were added.
C22_BoundedByLimit ==
    [][sent' # sent =>
          /\ Len(history') \in 1..Limit
          /\ history' = LastOf(Append(history, Recorded), Len(history'))]_vars

-----------------------------------------------------------------------------
(* The claims about the ids and the time stamps of the stored templates. *)

\* the step is an Update that found its template: the list keeps its length
\* and changes (the clock has moved on since the last stamp)
UpdateStep ==
    /\ Len(TemplatesList') = Len(TemplatesList)
    /\ TemplatesList' # TemplatesList

\* the step is an Add
AddStep == Len(TemplatesList') = Len(TemplatesList) + 1

\* C23: the id and createdAt of a template are fixed when it is created: Add
\* stamps the new template with the time of the call and leaves the others
\* alone; an Update keeps the id and createdAt of every template and sets
\* updatedAt of the template it replaces to the time of the update.
C23_FixedAtCreation ==
    [][/\ UpdateStep =>
            \A i \in 1..Len(TemplatesList) :
                /\ TemplatesList'[i].ID = TemplatesList[i].ID
                /\ TemplatesList'[i].CreatedAt = TemplatesList[i].CreatedAt
                /\ TemplatesList'[i] # TemplatesList[i] =>
                       TemplatesList'[i].UpdatedAt = now
       /\ AddStep =>
            /\ SubSeq(TemplatesList', 1, Len(TemplatesList)) = TemplatesList
            /\ TemplatesList'[Len(TemplatesList')].CreatedAt = now
            /\ TemplatesList'[Len(TemplatesList')].UpdatedAt = now]_vars

\* a template with a generated id that was created at 0 and updated at 2,
\* with another subject
C23_Witness ==
    \E i \in 1..Len(TemplatesList) :
        /\ TemplatesList[i].ID = FormatStamp(0)
        /\ TemplatesList[i].CreatedAt = 0
        /\ TemplatesList[i].UpdatedAt = 2
        /\ TemplatesList[i].Subject = <<"a", LB, LB, "b">>

\* the id is one the store has made from the clock
Generated(id) == id # <<>> /\ id[1] = "T"

\* C27: the ids of the stored templates are unique: after Add calls with an
\* empty id (the id then comes from the clock), Updates and Deletes in any
\* order, no two stored templates have the same id.
C27_UniqueIDs ==
    \A i, j \in 1..Len(TemplatesList) :
        /\ i # j
        /\ Generated(TemplatesList[i].ID)
        /\ Generated(TemplatesList[j].ID)
        => TemplatesList[i].ID # TemplatesList[j].ID

-----------------------------------------------------------------------------
(* The claims about extractVariables and RenderTemplate taken together. *)

\* the names extractVariables reports for subject and body of a template
Reported(s, b) == VariableMap(<<s, b>>)

\* RenderTemplate with the one key k replaces at least one stretch of the
\* template
Substitutes(k) ==
    \/ MatchRegions(template.Subject, 0, k) # {}
    \/ MatchRegions(template.Body, 0, k) # {}

\* C26: Extract and Render agree on what a placeholder is: for a template
\* and a map with the one key k, k is among the names extractVariables
\* reports for subject and body exactly when RenderTemplate replaces at
\* least one stretch, and a name that was reported and given a value is not
\* reported for the output any more.
C26_ExtractRenderAgree ==
    pc = "rendered" /\ Cardinality(DOMAIN values) = 1 =>
        \A k \in DOMAIN values :
            /\ k \in Reported(template.Subject, template.Body) <=> Substitutes(k)
            /\ k \in Reported(template.Subject, template.Body) =>
                   k \notin Reported(subject, body)

-----------------------------------------------------------------------------
(* The claims about the From field as a source of template defaults. *)

\* the step opens the prompt for a selected template
PromptOpens == ~showVarPrompt /\ showVarPrompt'

\* what parseFromField makes of the From field under the selected provider
Resolved == parseFromField(inputs.fromInput, GetProvider(config, selectedProvider))

\* the default the prompt has for a system variable, <<>> when it has none
DefaultOf(k) ==
    IF k \in DOMAIN variablePrompt'.defaults THEN variablePrompt'.defaults[k] ELSE <<>>

\* C28: the From override of the template defaults agrees with
\* parseFromField: when a template is selected and parseFromField resolves
\* the From field to an address (and perhaps a name) under the selected
\* provider, the default of from_email is that address and, when the name is
\* not empty, the default of from_name is that name.
C28_OverrideAsResolved ==
    [][PromptOpens /\ Resolved.err = Nil /\ Resolved.email # <<>> =>
          /\ DefaultOf(FROM_EMAIL) = Resolved.email
          /\ Resolved.name # <<>> => DefaultOf(FROM_NAME) = Resolved.name]_vars

-----------------------------------------------------------------------------
(* The settings: the list of providers and the form a provider is added or
   edited with.  Of the form the type selector, the name and the from
   address are modelled; the other inputs hold what Validate asks for.  A
   key is handled when no command of the settings is under way. *)

\* SettingsModel.providerTypes, as far as modelled
providerTypes == <<"mailgun", "smtp">>

\* the controls of the form, in the order of their constants
Fields == <<"settingsProviderType", "settingsName", "settingsFromAddress",
            "settingsSaveButton", "settingsCancelButton">>

\* what the user types into the name and the from address
NameTexts == { "", "a", "b" }
AddressTexts == { <<>>, <<"p", "@", "x">> }

\* what the user types as the date format in the application settings
DateFormatTexts == { <<>>, <<"02", "/", "01">> }

\* ProviderConfig.Validate: the error, <<>> for none
ValidateProvider(p) ==
    IF p.Name = "" THEN <<"name is required">>
    ELSE IF p.FromAddress = <<>> THEN <<"from_address is required">>
    ELSE IF p.Type = "smtp" /\ p.SMTP = <<>> THEN <<"smtp configuration is required">>
    ELSE IF p.Type = "smtp" /\ p.SMTP[1].Port = 0 THEN <<"smtp.port is required">>
    ELSE IF p.Type = "mailgun" /\ p.Mailgun = <<>>
    THEN <<"mailgun configuration is required">>
    ELSE <<>>

\* Config.AddProvider, the provider being valid
AddProvider(cfg, p) ==
    [cfg EXCEPT !.Providers = MapSet(@, p.Name, p),
                !.DefaultProvider =
                    IF DOMAIN MapSet(cfg.Providers, p.Name, p) = {p.Name}
                    THEN p.Name ELSE @]

\* a map without the key
MapDelete(m, k) == [x \in DOMAIN m \ {k} |-> m[x]]

\* Config.DeleteProvider: the configurations it may leave; when the default
\* is deleted, the provider the range loop comes to first is the new one
DeleteProvider(cfg, name) ==
    IF name \notin DOMAIN cfg.Providers THEN {cfg}
    ELSE IF cfg.DefaultProvider # name
    THEN {[cfg EXCEPT !.Providers = MapDelete(@, name)]}
    ELSE IF DOMAIN cfg.Providers = {name}
    THEN {[cfg EXCEPT !.Providers = MapDelete(@, name), !.DefaultProvider = ""]}
    ELSE {[cfg EXCEPT !.Providers = MapDelete(@, name), !.DefaultProvider = n] :
             n \in DOMAIN cfg.Providers \ {name}}

\* Config.ListProviders: the names in any order
ListProviders(cfg) == MapKeySlices(DOMAIN cfg.Providers)

\* Config.Save
ConfigSave == configFile' = <<config'>>

\* the inputs of an empty form
EmptyForm == [name |-> "", fromAddress |-> <<>>]

\* NewSettingsModel
NewSettingsModel(cfg, list) ==
    [currentView |-> "SettingsViewList", providerList |-> list, selectedIdx |-> 0,
     appSelected |-> TRUE, isEditing |-> FALSE, editingName |-> "",
     inputs |-> EmptyForm, FocusIndex |-> 2, providerTypeIdx |-> 0,
     saved |-> FALSE, saveError |-> <<>>]

\* SettingsModel.getProviderTypeIndex
getProviderTypeIndex(type) ==
    IF \E i \in 1..Len(providerTypes) : providerTypes[i] = type
    THEN (CHOOSE i \in 1..Len(providerTypes) : providerTypes[i] = type) - 1
    ELSE 0

\* SettingsModel.initializeForm(nil)
FormForAdd(m) ==
    [m EXCEPT !.inputs = EmptyForm, !.FocusIndex = 2]

\* SettingsModel.initializeForm(pc)
FormForEdit(m, p) ==
    [m EXCEPT !.inputs = [name |-> p.Name, fromAddress |-> p.FromAddress],
              !.providerTypeIdx = getProviderTypeIndex(p.Type),
              !.FocusIndex = 2]

\* SettingsModel.isValidField
isValidField(m, i) ==
    IF Fields[i] = "settingsProviderType" THEN ~m.isEditing ELSE TRUE

\* the least and the greatest of a set of numbers
Least(S) == CHOOSE x \in S : \A y \in S : x <= y
Greatest(S) == CHOOSE x \in S : \A y \in S : x >= y

\* the control the focus goes to with "tab" or "down", with "shift+tab" or "up"
FocusBehind(m) ==
    IF \E j \in (m.FocusIndex + 1)..Len(Fields) : isValidField(m, j)
    THEN Least({j \in (m.FocusIndex + 1)..Len(Fields) : isValidField(m, j)})
    ELSE IF m.isEditing THEN 2 ELSE 1
FocusBefore(m) ==
    IF \E j \in 1..(m.FocusIndex - 1) : isValidField(m, j)
    THEN Greatest({j \in 1..(m.FocusIndex - 1) : isValidField(m, j)})
    ELSE Len(Fields)

\* the messages of the settings
ConfigSavedMsg ==
    [type |-> "ConfigSavedMsg", Error |-> <<>>, isEditing |-> FALSE, editingName |-> "",
     providerType |-> "", inputs |-> EmptyForm]
ConfigErrorMsg(err) == [ConfigSavedMsg EXCEPT !.type = "ConfigErrorMsg", !.Error = err]

\* the command saveProviderConfig returns, bound to the model of the key
SaveCmd(m) ==
    [type |-> "saveProviderConfig", Error |-> <<>>, isEditing |-> m.isEditing,
     editingName |-> m.editingName, providerType |-> providerTypes[m.providerTypeIdx + 1],
     inputs |-> m.inputs]

\* saveProviderConfig: pc as built from the inputs, the port left empty
BuiltProvider(c) ==
    [Name |-> c.inputs.name, Type |-> c.providerType,
     FromAddress |-> c.inputs.fromAddress, FromName |-> <<>>,
     SMTP |-> IF c.providerType = "smtp" THEN << [Port |-> 587] >> ELSE <<>>,
     Mailgun |-> IF c.providerType = "mailgun"
                 THEN << [Domain |-> <<"x">>] >> ELSE <<>>]

\* saveProviderConfig: the configurations after the old entry was deleted,
\* which happens first when the name was changed in an edit
AfterDeleteOld(cfg, c) ==
    IF c.isEditing /\ c.editingName # c.inputs.name
    THEN DeleteProvider(cfg, c.editingName)
    ELSE {cfg}

\* saveProviderConfig from AddProvider on: the configuration and the
\* message it ends with
SaveFrom(cfg, c) ==
    IF ValidateProvider(BuiltProvider(c)) # <<>>
    THEN [config |-> cfg, msg |-> ConfigErrorMsg(ValidateProvider(BuiltProvider(c)))]
    ELSE [config |-> AddProvider(cfg, BuiltProvider(c)), msg |-> ConfigSavedMsg]

\* the settings of a configuration without providers, as DefaultConfig
\* returns it
SettingsInit ==
    /\ pc = "settings"
    /\ ComposeIdle
    /\ settings = NewSettingsModel(config, <<>>)
    /\ settingsMsg = <<>>
    /\ configFile = <<>>
    /\ ExtractIdle
    /\ StoreIdle
    /\ RenderIdle
    /\ ValidationIdle
    /\ SendIdle
    /\ HistoryIdle
    /\ FlowsIdle

SettingsFrame ==
    UNCHANGED <<pc, selectedProvider, inputs, textarea, showPicker, showVarPrompt,
                variablePrompt, entered, insertions, extractVars, storeVars,
                renderVars, validationVars, sendVars, historyVars, flowVars>>

\* a key comes in, the settings showing this view
KeyIn(view) == pc = "settings" /\ settingsMsg = <<>> /\ settings.currentView = view
InList == KeyIn("SettingsViewList")
InForm == KeyIn("SettingsViewAdd") \/ KeyIn("SettingsViewEdit")
InApp == KeyIn("SettingsViewApp")

\* the provider the list has the focus on
Selected == settings.providerList[settings.selectedIdx + 1]

\* updateListView, "up" / "k"
ListUp ==
    /\ InList
    /\ settings' =
         IF settings.appSelected
         THEN IF Len(settings.providerList) > 0
              THEN [settings EXCEPT !.appSelected = FALSE,
                                    !.selectedIdx = Len(settings.providerList) - 1]
              ELSE settings
         ELSE IF settings.selectedIdx > 0
              THEN [settings EXCEPT !.selectedIdx = @ - 1]
              ELSE [settings EXCEPT !.appSelected = TRUE]
    /\ UNCHANGED <<config, settingsMsg, configFile>>
    /\ SettingsFrame

\* updateListView, "down" / "j"
ListDown ==
    /\ InList
    /\ settings' =
         IF settings.appSelected
         THEN IF Len(settings.providerList) > 0
              THEN [settings EXCEPT !.appSelected = FALSE, !.selectedIdx = 0]
              ELSE settings
         ELSE IF settings.selectedIdx < Len(settings.providerList) - 1
              THEN [settings EXCEPT !.selectedIdx = @ + 1]
              ELSE [settings EXCEPT !.appSelected = TRUE]
    /\ UNCHANGED <<config, settingsMsg, configFile>>
    /\ SettingsFrame

\* updateListView, "a" / "n"
ListAdd ==
    /\ InList
    /\ settings' = FormForAdd([settings EXCEPT !.currentView = "SettingsViewAdd",
                                               !.isEditing = FALSE,
                                               !.editingName = ""])
    /\ UNCHANGED <<config, settingsMsg, configFile>>
    /\ SettingsFrame

\* updateListView, "e" / "enter"
ListEdit ==
    /\ InList
    /\ IF settings.appSelected
       THEN settings' = [settings EXCEPT !.currentView = "SettingsViewApp"]
       ELSE IF Len(settings.providerList) > 0 /\ GetProvider(config, Selected) # <<>>
       THEN settings' =
                 FormForEdit([settings EXCEPT !.currentView = "SettingsViewEdit",
                                              !.isEditing = TRUE,
                                              !.editingName = Selected],
                             GetProvider(config, Selected)[1])
       ELSE UNCHANGED settings
    /\ UNCHANGED <<config, settingsMsg, configFile>>
    /\ SettingsFrame

\* updateListView, "d" / "x": the selection after the list was read anew
AfterDelete(m, list) ==
    IF Len(list) = 0
    THEN [m EXCEPT !.providerList = list, !.selectedIdx = 0, !.appSelected = TRUE]
    ELSE IF m.selectedIdx >= Len(list) /\ m.selectedIdx > 0
    THEN [m EXCEPT !.providerList = list, !.selectedIdx = @ - 1]
    ELSE [m EXCEPT !.providerList = list]

\* updateListView, "d" / "x"
ListDelete ==
    /\ InList
    /\ IF ~settings.appSelected /\ Len(settings.providerList) > 0
          /\ Selected \in DOMAIN config.Providers
       THEN /\ config' \in DeleteProvider(config, Selected)
            /\ ConfigSave
            /\ \E list \in ListProviders(config') : settings' = AfterDelete(settings, list)
       ELSE UNCHANGED <<config, configFile, settings>>
    /\ UNCHANGED settingsMsg
    /\ SettingsFrame

\* updateListView, "s"
ListSetDefault ==
    /\ InList
    /\ IF ~settings.appSelected /\ Len(settings.providerList) > 0
       THEN /\ config' = [config EXCEPT !.DefaultProvider = Selected]
            /\ ConfigSave
       ELSE UNCHANGED <<config, configFile>>
    /\ UNCHANGED <<settings, settingsMsg>>
    /\ SettingsFrame

\* updateFormView, "esc", and "enter" on the cancel button
FormCancel ==
    /\ InForm
    /\ settings' = [settings EXCEPT !.currentView = "SettingsViewList",
                                    !.saved = FALSE, !.saveError = <<>>]
    /\ UNCHANGED <<config, settingsMsg, configFile>>
    /\ SettingsFrame

\* updateFormView, "tab" / "down" and "shift+tab" / "up"
FormFocus ==
    /\ InForm
    /\ \E i \in {FocusBehind(settings), FocusBefore(settings)} :
          settings' = [settings EXCEPT !.FocusIndex = i, !.saved = FALSE,
                                       !.saveError = <<>>]
    /\ UNCHANGED <<config, settingsMsg, configFile>>
    /\ SettingsFrame

\* updateFormView, "left" / "right" on the type selector
FormType ==
    /\ InForm
    /\ ~settings.isEditing
    /\ Fields[settings.FocusIndex] = "settingsProviderType"
    /\ settings' = [settings EXCEPT !.providerTypeIdx = (@ + 1) % Len(providerTypes)]
    /\ UNCHANGED <<config, settingsMsg, configFile>>
    /\ SettingsFrame

\* the inputs with the text typed into the one that has the focus
InputsTyped(m) ==
    IF Fields[m.FocusIndex] = "settingsName"
    THEN {[m.inputs EXCEPT !.name = t] : t \in NameTexts}
    ELSE IF Fields[m.FocusIndex] = "settingsFromAddress"
    THEN {[m.inputs EXCEPT !.fromAddress = t] : t \in AddressTexts}
    ELSE {m.inputs}

\* SettingsModel.Update: keys go to the input that has the focus
FormInput ==
    /\ InForm
    /\ \E ins \in InputsTyped(settings) : settings' = [settings EXCEPT !.inputs = ins]
    /\ UNCHANGED <<config, settingsMsg, configFile>>
    /\ SettingsFrame

\* updateFormView, "enter" on the save button
FormSave ==
    /\ InForm
    /\ Fields[settings.FocusIndex] = "settingsSaveButton"
    /\ settingsMsg' = Append(settingsMsg, SaveCmd(settings))
    /\ UNCHANGED <<config, settings, configFile>>
    /\ SettingsFrame

\* the command saveProviderConfig runs
RunSaveProviderConfig ==
    /\ pc = "settings"
    /\ \E i \in 1..Len(settingsMsg) :
          /\ settingsMsg[i].type = "saveProviderConfig"
          /\ \E cfg \in AfterDeleteOld(config, settingsMsg[i]) :
                /\ config' = SaveFrom(cfg, settingsMsg[i]).config
                /\ settingsMsg' =
                      [settingsMsg EXCEPT ![i] = SaveFrom(cfg, settingsMsg[i]).msg]
                /\ IF SaveFrom(cfg, settingsMsg[i]).msg.type = "ConfigSavedMsg"
                   THEN ConfigSave
                   ELSE UNCHANGED configFile
    /\ UNCHANGED settings
    /\ SettingsFrame

\* SettingsModel.Update, case ConfigSavedMsg
HandleConfigSaved ==
    /\ pc = "settings"
    /\ \E i \in 1..Len(settingsMsg) :
          /\ settingsMsg[i].type = "ConfigSavedMsg"
          /\ settingsMsg' = Without(settingsMsg, i)
    /\ \E list \in ListProviders(config) :
          settings' = [settings EXCEPT !.saved = TRUE, !.saveError = <<>>,
                                       !.currentView = "SettingsViewList",
                                       !.providerList = list,
                                       !.appSelected = (Len(list) = 0),
                                       !.selectedIdx = 0]
    /\ UNCHANGED <<config, configFile>>
    /\ SettingsFrame

\* SettingsModel.Update, case ConfigErrorMsg
HandleConfigError ==
    /\ pc = "settings"
    /\ \E i \in 1..Len(settingsMsg) :
          /\ settingsMsg[i].type = "ConfigErrorMsg"
          /\ settings' = [settings EXCEPT !.saved = FALSE,
                                          !.saveError = settingsMsg[i].Error]
          /\ settingsMsg' = Without(settingsMsg, i)
    /\ UNCHANGED <<config, configFile>>
    /\ SettingsFrame

\* updateAppView, "esc", and "enter" on the cancel button
AppCancel ==
    /\ InApp
    /\ settings' = [settings EXCEPT !.currentView = "SettingsViewList"]
    /\ UNCHANGED <<config, settingsMsg, configFile>>
    /\ SettingsFrame

\* updateAppView, "enter" on the input or the save button, the date format
\* typed before
AppSave ==
    /\ InApp
    /\ \E dateFmt \in DateFormatTexts :
          IF dateFmt # <<>>
          THEN /\ config' = [config EXCEPT !.DateFormat = dateFmt]
               /\ ConfigSave
          ELSE UNCHANGED <<config, configFile>>
    /\ settingsMsg' = Append(settingsMsg, ConfigSavedMsg)
    /\ UNCHANGED settings
    /\ SettingsFrame

SettingsNext ==
    \/ ListUp
    \/ ListDown
    \/ ListAdd
    \/ ListEdit
    \/ ListDelete
    \/ ListSetDefault
    \/ FormCancel
    \/ FormFocus
    \/ FormType
    \/ FormInput
    \/ FormSave
    \/ RunSaveProviderConfig
    \/ HandleConfigSaved
    \/ HandleConfigError
    \/ AppCancel
    \/ AppSave

SpecSettings == SettingsInit /\ [][SettingsNext]_vars

-----------------------------------------------------------------------------
(* The claims about the providers and the default provider. *)

\* the step is a run of saveProviderConfig that ends with an error
SaveFails ==
    \E i \in 1..Len(settingsMsg) :
        /\ settingsMsg[i].type = "saveProviderConfig"
        /\ settingsMsg'[i].type = "ConfigErrorMsg"

\* C29: saving a provider is all or nothing for the configuration in
\* memory: when saveProviderConfig ends with an error, an edit that changes
\* the name of the provider included, the providers and the default
\* provider are what they were before.
C29_FailedSaveChangesNothing ==
    [][SaveFails =>
          /\ config'.Providers = config.Providers
          /\ config'.DefaultProvider = config.DefaultProvider]_vars

\* C30: from the empty configuration on, whatever is added, deleted, edited,
\* renamed or set as default, DefaultProvider is "" exactly when there is no
\* provider, and is otherwise the name of one of the providers.
C30_DefaultIsAProvider ==
    pc = "settings" =>
        IF DOMAIN config.Providers = {}
        THEN config.DefaultProvider = ""
        ELSE config.DefaultProvider \in DOMAIN config.Providers

-----------------------------------------------------------------------------
(* Calls side by side: two RenderTemplate calls on the same template and
   map, extractVariables, parseFromField on the selected provider and the
   SendEmailMsg case with a custom From, each with its own locals, their
   steps in any order. *)

RenderFlows == {"render1", "render2"}

\* the template and the map the calls are handed, the From field
FlowTemplates ==
    { [Subject |-> Placeholder(KeyA) \o Placeholder(KeyDot),
       Body |-> <<LB, LB, SP, "a", SP, RB, RB>>],
      [Subject |-> <<"a">>, Body |-> Placeholder(KeyDot)] }
FlowValues ==
    { (KeyA :> <<"A">>) @@ (KeyDot :> Placeholder(KeyA)),
      (KeyA :> <<"A">>) }
FlowFromTexts == { <<"J", SP, "<", "j", "@", "x", ">">>, <<"j", "@">> }

\* the locals of the calls before their first step
FlowLocals ==
    [render1 |-> [pc |-> "render", pending |-> DOMAIN values,
                  subject |-> template.Subject, body |-> template.Body],
     render2 |-> [pc |-> "render", pending |-> DOMAIN values,
                  subject |-> template.Subject, body |-> template.Body],
     extract |-> [pc |-> "extract", variables |-> <<>>],
     parse |-> [pc |-> "parseFrom",
                result |-> [email |-> <<>>, name |-> <<>>, err |-> Nil]],
     send |-> [pc |-> "GetProvider", providerConfig |-> <<>>,
               modifiedConfig |-> <<>>, mailConfig |-> <<>>]]

FlowsInit ==
    /\ pc = "flows"
    /\ template \in FlowTemplates
    /\ values \in FlowValues
    /\ pending = {}
    /\ subject = <<>>
    /\ body = <<>>
    /\ config \in {c \in SendConfigs : c.DefaultProvider # ""}
    /\ selectedProvider = config.DefaultProvider
    /\ inputs \in {[EmptyInputs EXCEPT !.fromInput = text] : text \in FlowFromTexts}
    /\ textarea = <<>>
    /\ showPicker = FALSE
    /\ showVarPrompt = FALSE
    /\ variablePrompt = NoPrompt
    /\ entered = {}
    /\ insertions = 0
    /\ flows = FlowLocals
    /\ ExtractIdle
    /\ StoreIdle
    /\ ValidationIdle
    /\ SendIdle
    /\ HistoryIdle
    /\ SettingsIdle

FlowsFrame ==
    UNCHANGED <<pc, pending, subject, body, selectedProvider, inputs, textarea,
                showPicker, showVarPrompt, variablePrompt, entered, insertions,
                extractVars, storeVars, validationVars, sendVars, historyVars,
                settingsVars>>

\* the stored configuration as if the SendEmailMsg case had written the
\* custom From through the pointer GetProvider returned
StoredOverwritten(cfg, name, data) ==
    [cfg EXCEPT !.Providers[name] = ModifiedConfig(@, data)]

\* AppModel.Update, case SendEmailMsg: modifiedConfig := *providerConfig is
\* a copy, the stored configuration stays as it is
StoredAfterCopy(cfg, name, data) == cfg

\* RenderTemplate in call f: one iteration of the range loop
FlowRenderStep(f) ==
    /\ pc = "flows"
    /\ flows[f].pc = "render"
    /\ \E key \in flows[f].pending :
        IF ~Compile(Pattern(key)).ok
        THEN flows' = [flows EXCEPT ![f].pc = "panic"]
        ELSE flows' = [flows EXCEPT
                         ![f].subject = RenderKey(@, key, values[key]),
                         ![f].body = RenderKey(@, key, values[key]),
                         ![f].pending = @ \ {key}]
    /\ UNCHANGED <<template, values, config>>
    /\ FlowsFrame

\* RenderTemplate in call f: return subject, body
FlowRenderReturn(f) ==
    /\ pc = "flows"
    /\ flows[f].pc = "render"
    /\ flows[f].pending = {}
    /\ flows' = [flows EXCEPT ![f].pc = "rendered"]
    /\ UNCHANGED <<template, values, config>>
    /\ FlowsFrame

\* extractVariables(template.Subject, template.Body)
FlowExtract ==
    /\ pc = "flows"
    /\ flows.extract.pc = "extract"
    /\ \E v \in extractVariables(<<template.Subject, template.Body>>) :
          flows' = [flows EXCEPT !.extract = [pc |-> "extracted", variables |-> v]]
    /\ UNCHANGED <<template, values, config>>
    /\ FlowsFrame

\* parseFromField(the From field, the selected provider)
FlowParse ==
    /\ pc = "flows"
    /\ flows.parse.pc = "parseFrom"
    /\ flows' = [flows EXCEPT !.parse =
                    [pc |-> "parsedFrom",
                     result |-> parseFromField(inputs.fromInput,
                                               GetProvider(config, selectedProvider))]]
    /\ UNCHANGED <<template, values, config>>
    /\ FlowsFrame

\* the data of the SendEmailMsg: From and FromName as GetEmailData got them
FlowData ==
    [NoData EXCEPT
        !.From = parseFromField(inputs.fromInput,
                                GetProvider(config, selectedProvider)).email,
        !.FromName = parseFromField(inputs.fromInput,
                                    GetProvider(config, selectedProvider)).name]

\* AppModel.Update, case SendEmailMsg: providerConfig, err := GetProvider
FlowGetProvider ==
    /\ pc = "flows"
    /\ flows.send.pc = "GetProvider"
    /\ flows' = [flows EXCEPT !.send.pc = "modifiedConfig",
                              !.send.providerConfig = <<selectedProvider>>]
    /\ UNCHANGED <<template, values, config>>
    /\ FlowsFrame

\* AppModel.Update, case SendEmailMsg: the custom From put on the copy
FlowModify ==
    /\ pc = "flows"
    /\ flows.send.pc = "modifiedConfig"
    /\ flows' = [flows EXCEPT
                    !.send.pc = "NewWithLimits",
                    !.send.modifiedConfig =
                        << ModifiedConfig(config.Providers[flows.send.providerConfig[1]],
                                          FlowData) >>]
    /\ config' = StoredAfterCopy(config, flows.send.providerConfig[1], FlowData)
    /\ UNCHANGED <<template, values>>
    /\ FlowsFrame

\* AppModel.Update, case SendEmailMsg: mailer.NewWithLimits(providerConfig)
FlowNewMailer ==
    /\ pc = "flows"
    /\ flows.send.pc = "NewWithLimits"
    /\ flows' = [flows EXCEPT
                    !.send.pc = "Send",
                    !.send.mailConfig = << MailConfigOf(flows.send.modifiedConfig[1]) >>]
    /\ UNCHANGED <<template, values, config>>
    /\ FlowsFrame

FlowsNext ==
    \/ \E f \in RenderFlows : FlowRenderStep(f)
    \/ \E f \in RenderFlows : FlowRenderReturn(f)
    \/ FlowExtract
    \/ FlowParse
    \/ FlowGetProvider
    \/ FlowModify
    \/ FlowNewMailer

SpecFlows == FlowsInit /\ [][FlowsNext]_vars

-----------------------------------------------------------------------------
(* The claims about calls side by side. *)

\* every call that has returned has a result it can have when it runs alone
\* on the template, the map and the stored provider
ResultsAsAlone ==
    /\ \A f \in RenderFlows :
          flows[f].pc = "rendered" =>
              [subject |-> flows[f].subject, body |-> flows[f].body]
                  \in RenderTemplate(template, values)
    /\ flows.extract.pc = "extracted" =>
          flows.extract.variables
              \in extractVariables(<<template.Subject, template.Body>>)
    /\ flows.parse.pc = "parsedFrom" =>
          flows.parse.result
              = parseFromField(inputs.fromInput, GetProvider(config, selectedProvider))
    /\ flows.send.pc = "Send" =>
          flows.send.mailConfig
              = << MailConfigOf(ModifiedConfig(config.Providers[selectedProvider],
                                               FlowData)) >>

\* C24: extractVariables, RenderTemplate and parseFromField change nothing
\* that is shared: the template and the map handed to RenderTemplate and the
\* provider handed to parseFromField are after every step what they were
\* before; a send with a custom From works on a copy, the stored provider
\* keeps its from address and from name; and with the calls' steps in any
\* order every call returns a result it can return alone.
C24_NothingSharedChanges ==
    /\ [][/\ template' = template
          /\ values' = values
          /\ config' = config
          /\ inputs' = inputs]_vars
    /\ []ResultsAsAlone

\* all calls have returned: the two renders with different results, the
\* mailer made for the custom From "j@x" while the stored provider still
\* has "p@x"
C24_Witness ==
    /\ pc = "flows"
    /\ flows.render1.pc = "rendered"
    /\ flows.render2.pc = "rendered"
    /\ flows.render1.subject # flows.render2.subject
    /\ flows.extract.pc = "extracted"
    /\ flows.parse.pc = "parsedFrom"
    /\ flows.send.pc = "Send"
    /\ flows.send.modifiedConfig[1].FromAddress = <<"j", "@", "x">>
    /\ config.Providers[selectedProvider].FromAddress = <<"p", "@", "x">>

====
